---- MODULE Spec2Model ----
(***************************************************************************)
(* Model of the TaoPulse write-back batching persistor                     *)
(* (app/storage/storage.py, PeriodicSaveStorage) and of the request        *)
(* gatekeeper (app/api/api.py, get_tao_dividends).                         *)
(*                                                                         *)
(* The program runs on one asyncio event loop: a step of the model is the  *)
(* code a task runs between two suspension points.  The suspension points  *)
(* of the persistor are asyncio.sleep, the schema creation of start(), the *)
(* await of the timer task in stop(), and the durable write (the commit of *)
(* the session).                                                           *)
(***************************************************************************)
EXTENDS Integers, Sequences, FiniteSets, Bags, TLC

\* ------------------------------------------------------------------ bounds
MaxRecords == 3        \* records enqueued in one behaviour
MaxTimers == 2         \* timer tasks alive at the same time
max_queue_size == 2    \* constructor argument of PeriodicSaveStorage
MaxCalls == 2          \* get_tao_dividends requests in one behaviour
MaxTrades == 3         \* direct calls of TradeService.trade in one behaviour
MaxSupplied == 2       \* tweets handed to one direct add_sentiment call
MaxClientCalls == 3    \* calls made on the DividendService in one behaviour
MaxLookups == 1        \* get_storage_data requests in one behaviour
MaxTweets == 1         \* tweets in one answer of the tweets service

\* ------------------------------------------------------- program constants
KindOrder == <<"tweets", "sentiment_analyses", "trades", "dividends">>
Kinds == {KindOrder[i] : i \in 1..Len(KindOrder)}
NoKind == 0
TimerIds == 1..MaxTimers
None == 0

VARIABLES
    queues,      \* self.queues: kind -> list of records not yet durable
    store,       \* the Record Store: bag of the rows committed
    _running,    \* self._running
    _task,       \* self._task: a timer id, or None
    timers,      \* the _periodic_save tasks: id -> [pc, kind, items]
    startPc,     \* position of the start() call in progress
    stopCall,    \* the stop() call in progress: [pc, awaiting, kind, items],
                 \* with the records buffered when it was called (history)
    scheduled,   \* kind -> number of _save_model_type tasks created, not yet run
    flushers,    \* bag of the _save_model_type tasks suspended in their
                 \* durable write, each [kind, items]
    nextId,      \* identity of the next record object created
    failed,      \* history: the records a failed durable write has put back
    cache,       \* Redis: cache key -> the serialized answer, or NoEntry
    calls,       \* the get_tao_dividends calls suspended in the primary fetch
    pipelines,   \* bag of the background_process tasks created
    answers,     \* the answers returned so far: request_id -> answer
    nextReq,     \* number of the next request (stands for its uuid)
    log,         \* history: what each call did, request_id -> [netuid, hotkey,
                 \* trade, overlapped (the calls in flight when it began),
                 \* fetched, launched, ttl_over (the ttl of what it wrote to
                 \* the cache has run out)]
    wallet,      \* TradeService.wallet: [is_none, hotkey, unlocked]
    tradeCalls,  \* the TradeService.trade calls made directly, in order:
                 \* arguments, position, chain calls made, result
    added,       \* history: the arguments of the add_sentiment call made
                 \* directly last, [is_success, tweets, request_id]
    startPc2,    \* position of a second start() call, made while another
                 \* lifecycle call is in progress
    client,      \* the DividendService: [substrate, is_warmed_up, call (the
                 \* call made last: op, warm_up, pc), done (history: the
                 \* calls that have ended, in order)]
    lookups,     \* the get_storage_data calls, in order: argument, position,
                 \* what was persisted when it began (history), rows read
    lastOp       \* history: the step taken last, [op, res, write]: the
                 \* operation, where it got to, and how the durable write
                 \* that returned in this step ended ("" when none did)

storageVars == <<queues, store, _running, _task, timers, startPc, stopCall,
                 scheduled, flushers, nextId>>
historyVars == <<failed>>
requestVars == <<cache, calls, pipelines, answers, nextReq, log>>
serviceVars == <<wallet, tradeCalls, added, startPc2, client, lookups>>
gateVars == <<requestVars, serviceVars>>
vars == <<queues, store, _running, _task, timers, startPc, stopCall,
          scheduled, flushers, nextId, failed, cache, calls, pipelines,
          answers, nextReq, log, wallet, tradeCalls, added, startPc2, client,
          lookups, lastOp>>

\* ------------------------------------------------------------- pure helpers
RECURSIVE BagOfSeq(_)
BagOfSeq(s) == IF s = <<>> THEN EmptyBag
               ELSE SetToBag({Head(s)}) (+) BagOfSeq(Tail(s))

CountIn(s, r) == Cardinality({i \in DOMAIN s : s[i] = r})
Range(s) == {s[i] : i \in DOMAIN s}

EmptyQueues == [k \in Kinds |-> <<>>]
FreeTimer == [pc |-> "free", kind |-> NoKind, items |-> <<>>]
IdleStop == [pc |-> "idle", awaiting |-> None, kind |-> NoKind, items |-> <<>>,
             buffered |-> {}]

\* The first kind at or after position i of the dict's iteration order whose
\* queue is truthy (non-empty); 0 when the iteration is exhausted.
NextNonEmptyNoTest(q, i) == IF i > Len(KindOrder) THEN 0 ELSE i
RECURSIVE NextNonEmpty(_, _)
NextNonEmpty(q, i) ==
    IF i > Len(KindOrder) THEN 0
    ELSE IF q[KindOrder[i]] # <<>> THEN i
    ELSE NextNonEmpty(q, i + 1)

\* items_to_save = queue.copy(); self.queues[model_type] = []
SwapOutDropsNothing(q, k) == q
SwapOut(q, k) == [q EXCEPT ![k] = <<>>]

\* self.queues[model_type].extend(items_to_save)
RequeueOverwrites(q, k, items) == [q EXCEPT ![k] = items]
RequeueDrops(q, k, items) == q
Requeue(q, k, items) == [q EXCEPT ![k] = q[k] \o items]

\* session.add_all(items_to_save) and the commit: the rows become durable
Persist(s, items) == s (+) BagOfSeq(items)

\* len(self.queues[model_type]) >= self.max_queue_size
QueueFullStrict(n) == n > max_queue_size
QueueFull(n) == n >= max_queue_size

\* One _save_all pass, resumed at position i of the iteration over the
\* queues q: runs without suspension up to the next durable write.
SaveAllFrom(q, i) ==
    LET j == NextNonEmpty(q, i) IN
    IF j = 0
    THEN [done |-> TRUE, q |-> q, kind |-> NoKind, items |-> <<>>]
    ELSE [done |-> FALSE, q |-> SwapOut(q, KindOrder[j]), kind |-> j,
          items |-> q[KindOrder[j]]]

\* Where the iteration of _save_all goes on after the write of kind
\* position j: the except clause is inside the loop, so a failed write is
\* followed by the next kind like a successful one.
ResumeAtAborts(j, ok) == IF ok THEN j + 1 ELSE Len(KindOrder) + 1
ResumeAt(j, ok) == j + 1

\* The outcome of a durable write of a batch of kind position j
AfterWrite(q, s, j, items, ok) ==
    IF ok THEN [q |-> q, s |-> Persist(s, items)]
    ELSE [q |-> Requeue(q, KindOrder[j], items), s |-> s]

Op(op, res, w) == [op |-> op, res |-> res, write |-> w]

\* How a durable write ended: "resaved" when it stored records that an
\* earlier failed write had put back.
WriteOutcome(ok, items) ==
    IF ~ok THEN "failed"
    ELSE IF Range(items) \cap failed # {} THEN "resaved" ELSE "saved"

\* ---------------------------------------------------- gatekeeper helpers
\* Optional query parameters: <<>> is None, <<v>> is the string v.
NetuidArgs == {<<>>, <<"18">>}
HotkeyArgs == {<<>>, <<"hk1">>}
DividendValues == {"d1", "d2"}
NoEntry == <<>>

\* str() of an optional string and of a bool, as an f-string formats them
PyStr(o) == IF o = <<>> THEN "None" ELSE o[1]
PyBool(b) == IF b THEN "True" ELSE "False"

\* cache_key = f"tao_dividends:{netuid}_{hotkey}_{trade}"
CacheKey(netuid, hotkey, trade) ==
    "tao_dividends:" \o PyStr(netuid) \o "_" \o PyStr(hotkey) \o "_" \o PyBool(trade)

\* netuid and hotkey are query strings (str | None) that the handler puts
\* into the key as they arrive: texts that spell None or hold the
\* separator are arguments like any other.
KeyNetuidArgs == NetuidArgs \cup {<<"None">>, <<"18_a">>}
KeyHotkeyArgs == HotkeyArgs \cup {<<"None">>, <<"a_hk1">>}
CacheKeys == {CacheKey(n, h, t) : n \in KeyNetuidArgs, h \in KeyHotkeyArgs,
                                  t \in BOOLEAN}

\* netuid or settings.default_netuid, hotkey or settings.default_hotkey
default_netuid == "default_netuid"
default_hotkey == "default_hotkey"
OrDefault(o, d) == IF o = <<>> THEN d ELSE o[1]

\* get_dividends: results = {net_id: result ...} over netuids, which is
\* [netuid] (the query string) when netuid is given and range(1, 51) (ints)
\* when it is not; data stands for the per-hotkey values.
GetDividendsResult(netuid, data) ==
    [keys |-> IF netuid = <<>> THEN "int" ELSE "str", data |-> data]

\* orjson.dumps refuses a dict with a key that is not a str (no
\* OPT_NON_STR_KEYS); default= is consulted for values only.
OrjsonDumpsRaises(dividends) == dividends.keys # "str"

\* TaoDividentsResult(dividends: dict[int, dict[str, int]]): validation
\* turns a numeric string key into an int.
ValidateDividends(dividends) == [dividends EXCEPT !.keys = "int"]

\* jsonable_encoder of the answer: the datetime becomes its ISO string and
\* the int keys of dividends become JSON strings; a value that is JSON
\* already is left as it is.
IsoFormat(t) == IF "datetime" \in DOMAIN t THEN [iso |-> t.datetime] ELSE t
JsonableEncoder(a) ==
    [a EXCEPT !.collected_at = IsoFormat(@), !.dividends.keys = "str"]

\* orjson.dumps(result, default=jsonable_encoder); orjson.loads gives the
\* JSON object back as a dict.
DumpsRaw(a) == a
Dumps(a) == JsonableEncoder(a)
Loads(v) == v

\* Redis: client.set(key, value, ex=ttl) stores the value with a fresh ttl,
\* client.get(key) gives nothing for a key whose ttl has run out, whether
\* or not the key has been removed from memory yet.
RedisGetIgnoresTtl(c, key) == IF c[key] = NoEntry THEN NoEntry ELSE c[key].value
RedisGet(c, key) ==
    IF c[key] = NoEntry \/ c[key].expired THEN NoEntry ELSE c[key].value
RedisSet(c, key, value) == [c EXCEPT ![key] = [value |-> value, expired |-> FALSE]]

\* get_cached_result and RedisClient.get_cache catch every exception of the
\* cache read and give None; nothing of it reaches the handler.
GetCacheRaisesUnhandled(cacheUp) == ~cacheUp
GetCacheRaises(cacheUp) == FALSE

\* cached_result["cached"] = True
MarkCachedNot(v) == v
MarkCached(v) == [v EXCEPT !.cached = TRUE]

\* if cached_result: ... the entry read from the cache counts as a hit
CacheHitNever(v) == FALSE
CacheHit(v) == v # NoEntry

\* ExecuteService.trade: the instant result, and whether a task is created
TradeInstantNever(trade, netuid) == [stake_tx_triggered |-> FALSE, netuid |-> netuid]
TradeInstant(trade, netuid) == [stake_tx_triggered |-> trade, netuid |-> netuid]
LaunchesAlways(trade) == TRUE
Launches(trade) == trade

\* asyncio.create_task(self.background_process(input)): the task exists and
\* has not run yet.  AwaitedTask is the task run by its caller up to its
\* first suspension.
NewTask(input) ==
    [request_id |-> input.request_id, netuid |-> input.netuid,
     hotkey |-> input.hotkey, pc |-> "created", called |-> {},
     tweets |-> <<>>, reported |-> <<>>, sentiment |-> 0,
     a |-> "", b |-> "", c |-> ""]
AwaitedTask(input) ==
    [NewTask(input) EXCEPT !.pc = "tweets", !.called = {"get_bittensor_tweets"}]
CreateTask(input) == NewTask(input)

\* if not result.is_success: return
ContinuesAlways(is_success) == TRUE
Continues(is_success) == is_success

\* The tweets of an answer of the tweets API, by their texts
TweetTexts(n) == [i \in 1..n |-> "t" \o ToString(i)]

\* What the LLM wrote between <score> and </score>, character by character
ScoreTexts == {<<>>, <<"0">>, <<"5">>, <<"-", "5">>}
IsDigit(ch) == \E d \in 0..9 : ToString(d) = ch
DigitValue(ch) == CHOOSE d \in 0..9 : ToString(d) = ch

\* re.search(r"<score>[\s\S]*?(\d+)[\s\S]*?</score>", content): the group
\* is the first run of digits after <score>; int() of it is the score.
RECURSIVE FromFirstDigit(_)
FromFirstDigit(text) ==
    IF text = <<>> \/ IsDigit(Head(text)) THEN text ELSE FromFirstDigit(Tail(text))
RECURSIVE DigitRun(_)
DigitRun(text) ==
    IF text = <<>> \/ ~IsDigit(Head(text)) THEN <<>>
    ELSE <<Head(text)>> \o DigitRun(Tail(text))
RECURSIVE IntOf(_)
IntOf(digits) ==
    IF digits = <<>> THEN 0
    ELSE 10 * IntOf(SubSeq(digits, 1, Len(digits) - 1)) + DigitValue(digits[Len(digits)])
ScoreMatch(text) == DigitRun(FromFirstDigit(text))
\* The number the text denotes, read with its sign
ReportedScore(text) ==
    IF text # <<>> /\ Head(text) = "-" THEN 0 - IntOf(ScoreMatch(text))
    ELSE IntOf(ScoreMatch(text))
ExtractScore(text) == IntOf(ScoreMatch(text))

\* TradeService.trade: sentiment > 0 stakes, sentiment < 0 unstakes, 0 does
\* neither
TradeActionAlwaysStake(sentiment) == "add_stake"
TradeAction(sentiment) ==
    IF sentiment > 0 THEN "add_stake" ELSE IF sentiment < 0 THEN "unstake" ELSE "none"

NoRequest == 0
\* self.wallet = None
NoWallet == [is_none |-> TRUE, hotkey |-> "", unlocked |-> FALSE]

Init ==
    /\ cache = [k \in CacheKeys |-> NoEntry]
    /\ calls = {}
    /\ pipelines = EmptyBag
    /\ answers = <<>>
    /\ nextReq = 1
    /\ log = <<>>
    /\ queues = EmptyQueues
    /\ store = EmptyBag
    /\ _running = FALSE
    /\ _task = None
    /\ timers = [i \in TimerIds |-> FreeTimer]
    /\ startPc = "idle"
    /\ stopCall = IdleStop
    /\ scheduled = [k \in Kinds |-> 0]
    /\ flushers = EmptyBag
    /\ nextId = 1
    /\ wallet = NoWallet
    /\ tradeCalls = <<>>
    /\ added = [is_success |-> FALSE, tweets |-> <<>>, request_id |-> NoRequest]
    /\ startPc2 = "idle"
    /\ client = [substrate |-> "None", is_warmed_up |-> FALSE,
                 call |-> [op |-> "", warm_up |-> FALSE, pc |-> "returned"],
                 done |-> <<>>]
    /\ lookups = <<>>
    /\ failed = {}
    /\ lastOp = Op("init", "", "")

\* ------------------------------------------------------------ queue_item
\* queue_item(model_type, item), reached through add_twitter, add_sentiment,
\* add_trade and add_dividends, which pair each model class with its queue.

\* queue_item as a function of the persistor's state st = [q, id, sch] (the
\* queues, the number of the next record, the flushes scheduled); the
\* record keeps its request_id and, where its model has one, is_success.
PutText(st, k, rid, is_success, text) ==
    LET item == [kind |-> k, id |-> st.id, request_id |-> rid,
                 is_success |-> is_success, text |-> text]
        q2 == [st.q EXCEPT ![k] = Append(@, item)]
    IN [q |-> q2, id |-> st.id + 1,
        sch |-> IF QueueFull(Len(q2[k])) THEN [st.sch EXCEPT ![k] = @ + 1]
                ELSE st.sch]
Persistor == [q |-> queues, id |-> nextId, sch |-> scheduled]
Commit(st) == queues' = st.q /\ nextId' = st.id /\ scheduled' = st.sch
Absent == "absent"
Put(st, k, rid, is_success) == PutText(st, k, rid, is_success, Absent)

Enqueue(k, rid) == Commit(Put(Persistor, k, rid, Absent))

\* for tweet in tweets: queue_item("tweets", Tweet(...)); the Tweet model
\* has no is_success and no message
RECURSIVE PutTweetsReversed(_, _, _)
PutTweetsReversed(st, tweets, rid) ==
    IF tweets = <<>> THEN st
    ELSE PutText(PutTweetsReversed(st, Tail(tweets), rid), "tweets", rid, Absent,
                 Head(tweets))
RECURSIVE PutTweets(_, _, _)
PutTweets(st, tweets, rid) ==
    IF tweets = <<>> THEN st
    ELSE PutTweets(PutText(st, "tweets", rid, Absent, Head(tweets)), Tail(tweets), rid)

add_twitter_later(st, tweets_response, rid) == st
add_twitter(st, tweets_response, rid) == PutTweets(st, tweets_response.tweets, rid)
add_sentiment(st, sentiment, tweets, rid) ==
    PutTweets(Put(st, "sentiment_analyses", rid,
                  IF sentiment.is_success THEN "True" ELSE "False"),
              tweets, rid)
add_trade(st, result, rid) ==
    Put(st, "trades", rid, IF result.is_success THEN "True" ELSE "False")

\* if model_type not in self.queues: raise ValueError, before anything is
\* changed (a setdefault would make a queue of the unknown kind)
UnknownKindMakesQueue(st, k) == [st EXCEPT !.q = (k :> <<st.id>>) @@ st.q]
UnknownKindRaises(st, k) == st

queue_item(k) ==
    /\ nextId <= MaxRecords
    /\ UNCHANGED gateVars
    /\ IF k \notin Kinds
       THEN /\ lastOp' = Op("queue_item", "ValueError", "")
            /\ Commit(UnknownKindRaises(Persistor, k))
            /\ UNCHANGED <<store, _running, _task, timers, startPc,
                           stopCall, flushers, historyVars>>
       ELSE /\ Enqueue(k, NoRequest)
            /\ lastOp' = Op("queue_item", "queued", "")
            /\ UNCHANGED <<store, _running, _task, timers, startPc,
                           stopCall, flushers, historyVars>>

\* --------------------------------------------------------- _save_model_type
\* A size-triggered task gets its first turn on the event loop.
FlushRun(k) ==
    /\ UNCHANGED gateVars
    /\ scheduled[k] > 0
    /\ scheduled' = [scheduled EXCEPT ![k] = @ - 1]
    /\ IF queues[k] = <<>>
       THEN /\ lastOp' = Op("_save_model_type", "empty", "")
            /\ UNCHANGED <<queues, flushers>>
       ELSE /\ queues' = SwapOut(queues, k)
            /\ flushers' = flushers (+) SetToBag({[kind |-> k, items |-> queues[k]]})
            /\ lastOp' = Op("_save_model_type", "write", "")
    /\ UNCHANGED <<store, _running, _task, timers, startPc, stopCall, nextId,
                   historyVars>>

\* The durable write of a size-triggered task returns or raises.
FlushWriteDone(f, ok) ==
    /\ UNCHANGED gateVars
    /\ BagIn(f, flushers)
    /\ flushers' = flushers (-) SetToBag({f})
    /\ IF ok
       THEN /\ store' = Persist(store, f.items)
            /\ UNCHANGED queues
       ELSE /\ queues' = Requeue(queues, f.kind, f.items)
            /\ UNCHANGED store
    /\ failed' = IF ok THEN failed \ Range(f.items)
                  ELSE failed \cup Range(f.items)
    /\ lastOp' = Op("_save_model_type", "done", WriteOutcome(ok, f.items))
    /\ UNCHANGED <<_running, _task, timers, startPc, stopCall, scheduled, nextId>>

\* ------------------------------------------------------------ _periodic_save
\* Where a timer task that leaves its loop ends: its result is kept while
\* self._task or a stop() call still refers to it.
ExitPc(i) == IF stopCall.awaiting = i \/ _task = i THEN "done" ELSE "free"

\* The loop test of _periodic_save after a _save_all pass has ended.
LoopTestIgnoresFlag(i) == [pc |-> "sleep", kind |-> NoKind, items |-> <<>>]
LoopTestExits(i) == [pc |-> ExitPc(i), kind |-> NoKind, items |-> <<>>]
LoopTest(i) ==
    IF _running THEN [pc |-> "sleep", kind |-> NoKind, items |-> <<>>]
    ELSE [pc |-> ExitPc(i), kind |-> NoKind, items |-> <<>>]

\* The timer's position after a (part of a) _save_all pass r.
TimerAfter(i, r) ==
    IF r.done THEN LoopTest(i)
    ELSE [pc |-> "write", kind |-> r.kind, items |-> r.items]

\* The task created by start() gets its first turn: while self._running.
TimerStart(i) ==
    /\ UNCHANGED gateVars
    /\ timers[i].pc = "new"
    /\ timers' = [timers EXCEPT ![i] = LoopTest(i)]
    /\ lastOp' = Op("_periodic_save", "started", "")
    /\ UNCHANGED <<queues, store, _running, _task, startPc, stopCall,
                   scheduled, flushers, nextId, historyVars>>

\* asyncio.sleep(save_interval) returns and _save_all runs up to its first
\* durable write, or to its end when every queue is empty.
TimerWake(i) ==
    /\ UNCHANGED gateVars
    /\ timers[i].pc = "sleep"
    /\ LET r == SaveAllFrom(queues, 1) IN
       /\ queues' = r.q
       /\ timers' = [timers EXCEPT ![i] = TimerAfter(i, r)]
       /\ lastOp' = Op("_save_all", IF r.done THEN "empty" ELSE "write", "")
    /\ UNCHANGED <<store, _running, _task, startPc, stopCall, scheduled,
                   flushers, nextId, historyVars>>

\* The durable write of the timer's batch returns or raises; _save_all goes
\* on with the kinds that follow.
TimerWriteDone(i, ok) ==
    /\ UNCHANGED gateVars
    /\ timers[i].pc = "write"
    /\ LET a == AfterWrite(queues, store, timers[i].kind, timers[i].items, ok)
           r == SaveAllFrom(a.q, ResumeAt(timers[i].kind, ok))
       IN /\ store' = a.s
          /\ queues' = r.q
          /\ timers' = [timers EXCEPT ![i] = TimerAfter(i, r)]
          /\ lastOp' = Op("_save_all", IF r.done THEN "empty" ELSE "write",
                          WriteOutcome(ok, timers[i].items))
    /\ failed' = IF ok THEN failed \ Range(timers[i].items)
                  ELSE failed \cup Range(timers[i].items)
    /\ UNCHANGED <<_running, _task, startPc, stopCall, scheduled, flushers,
                   nextId>>

\* ------------------------------------------------------------------- start
\* if self._running: return
StartGuardMissing == FALSE
StartGuard == _running

\* start(): returns at once when running, else begins the schema creation.
StartCall ==
    /\ UNCHANGED gateVars
    /\ startPc = "idle"
    /\ IF StartGuard
       THEN /\ lastOp' = Op("start", "noop", "")
            /\ UNCHANGED <<storageVars, historyVars>>
       ELSE /\ startPc' = "schema"
            /\ lastOp' = Op("start", "schema", "")
            /\ UNCHANGED <<queues, store, _running, _task, timers, stopCall,
                           scheduled, flushers, nextId, historyVars>>

\* The schema creation returns (the timer task is created) or raises.
StartSchemaDone(ok) ==
    /\ UNCHANGED gateVars
    /\ startPc = "schema"
    /\ startPc' = "idle"
    /\ IF ok
       THEN /\ \E i \in TimerIds : timers[i].pc = "free"
            /\ LET i == CHOOSE j \in TimerIds :
                          /\ timers[j].pc = "free"
                          /\ \A m \in TimerIds : timers[m].pc = "free" => j <= m
               IN /\ timers' = [timers EXCEPT ![i] =
                                  [pc |-> "new", kind |-> NoKind, items |-> <<>>]]
                  /\ _task' = i
            /\ _running' = TRUE
            /\ lastOp' = Op("start", "started", "")
       ELSE /\ lastOp' = Op("start", "raised", "")
            /\ UNCHANGED <<_running, _task, timers>>
    /\ UNCHANGED <<queues, store, stopCall, scheduled, flushers, nextId,
                   historyVars>>

\* -------------------------------------------------------------------- stop
\* await self._task returns once the timer task has ended
TimerEndedNotAwaited(i) == TRUE
TimerEnded(i) == timers[i].pc = "done"

\* The stop() call after a (part of a) final _save_all pass r.
StopAfter(r, buffered) ==
    IF r.done THEN IdleStop
    ELSE [pc |-> "write", awaiting |-> None, kind |-> r.kind, items |-> r.items,
          buffered |-> buffered]

Buffered(q) == UNION {Range(q[k]) : k \in Kinds}

\* if not self._running: return
StopGuardMissing == FALSE
StopGuard == ~_running

\* stop(): returns at once when not running; else clears self._running and
\* awaits the timer task.  When there is no task to wait for, the final
\* _save_all starts in the same step.
StopCall ==
    /\ UNCHANGED gateVars
    /\ stopCall.pc = "idle"
    /\ IF StopGuard
       THEN /\ lastOp' = Op("stop", "noop", "")
            /\ UNCHANGED <<storageVars, historyVars>>
       ELSE /\ _running' = FALSE
            /\ IF _task # None /\ ~TimerEnded(_task)
               THEN /\ stopCall' = [pc |-> "await", awaiting |-> _task,
                                    kind |-> NoKind, items |-> <<>>,
                                    buffered |-> Buffered(queues)]
                    /\ lastOp' = Op("stop", "await", "")
                    /\ UNCHANGED <<queues, _task, timers>>
               ELSE LET r == SaveAllFrom(queues, 1) IN
                    /\ _task' = None
                    /\ timers' = IF _task = None THEN timers
                                 ELSE [timers EXCEPT ![_task] = FreeTimer]
                    /\ queues' = r.q
                    /\ stopCall' = StopAfter(r, Buffered(queues))
                    /\ lastOp' = Op("stop", IF r.done THEN "returned" ELSE "write", "")
            /\ UNCHANGED <<store, startPc, scheduled, flushers, nextId, failed>>

\* The awaited timer task has ended: self._task = None, then the final
\* _save_all runs up to its first durable write, or stop() returns.
StopResume ==
    /\ UNCHANGED gateVars
    /\ stopCall.pc = "await"
    /\ TimerEnded(stopCall.awaiting)
    /\ LET r == SaveAllFrom(queues, 1) IN
       /\ _task' = None
       /\ timers' = [timers EXCEPT ![stopCall.awaiting] = FreeTimer]
       /\ queues' = r.q
       /\ stopCall' = StopAfter(r, stopCall.buffered)
       /\ lastOp' = Op("stop", IF r.done THEN "returned" ELSE "write", "")
    /\ UNCHANGED <<store, _running, startPc, scheduled, flushers, nextId,
                   historyVars>>

\* The durable write of stop()'s batch returns or raises; the final
\* _save_all goes on with the kinds that follow, then stop() returns.
StopWriteDone(ok) ==
    /\ UNCHANGED gateVars
    /\ stopCall.pc = "write"
    /\ LET a == AfterWrite(queues, store, stopCall.kind, stopCall.items, ok)
           r == SaveAllFrom(a.q, ResumeAt(stopCall.kind, ok))
       IN /\ store' = a.s
          /\ queues' = r.q
          /\ stopCall' = StopAfter(r, stopCall.buffered)
          /\ lastOp' = Op("stop", IF r.done THEN "returned" ELSE "write",
                          WriteOutcome(ok, stopCall.items))
    /\ failed' = IF ok THEN failed \ Range(stopCall.items)
                  ELSE failed \cup Range(stopCall.items)
    /\ UNCHANGED <<_running, _task, timers, startPc, scheduled, flushers, nextId>>

\* ------------------------------------------------------------ specification
\* The lifespan of main.py awaits start() and stop() one after the other:
\* a lifecycle call begins only when no other lifecycle call is in progress.
Sequential == startPc = "idle" /\ stopCall.pc = "idle"

Next ==
    \/ \E k \in Kinds \cup {"unknown"} : queue_item(k)
    \/ \E k \in Kinds : FlushRun(k)
    \/ \E f \in BagToSet(flushers), ok \in BOOLEAN : FlushWriteDone(f, ok)
    \/ \E i \in TimerIds : TimerStart(i)
    \/ \E i \in TimerIds : TimerWake(i)
    \/ \E i \in TimerIds, ok \in BOOLEAN : TimerWriteDone(i, ok)
    \/ Sequential /\ StartCall
    \/ \E ok \in BOOLEAN : StartSchemaDone(ok)
    \/ Sequential /\ StopCall
    \/ StopResume
    \/ \E ok \in BOOLEAN : StopWriteDone(ok)

Spec == Init /\ [][Next]_vars

\* The event loop gives every task that is ready its turn: a created task
\* starts, a sleep ends, a durable write returns or raises.  A durable write
\* that is attempted again and again does not fail for ever.
Fairness ==
    /\ WF_vars(\E i \in TimerIds : TimerStart(i))
    /\ WF_vars(\E i \in TimerIds : TimerWake(i))
    /\ WF_vars(\E i \in TimerIds, ok \in BOOLEAN : TimerWriteDone(i, ok))
    /\ WF_vars(\E f \in BagToSet(flushers), ok \in BOOLEAN : FlushWriteDone(f, ok))
    /\ SF_vars(\E i \in TimerIds : TimerWriteDone(i, TRUE))
FairSpec == Spec /\ Fairness

\* Besides, the event loop resumes a stop() call whose awaited task has
\* ended, and the durable writes of stop() return or raise.
StopFairness ==
    /\ WF_vars(StopResume)
    /\ WF_vars(\E ok \in BOOLEAN : StopWriteDone(ok))
FairStopSpec == Spec /\ Fairness /\ StopFairness

\* --------------------------------------------------------- DividendService
ClientFrame == UNCHANGED <<requestVars, storageVars, historyVars, wallet, tradeCalls,
                           added, startPc2, lookups>>
ClientIdle == client.call.pc \in {"returned", "raised"}

\* The call in progress ends, returning or raising
Ended(c, res) ==
    [c EXCEPT !.call.pc = res,
              !.done = Append(@, [op |-> c.call.op, warm_up |-> c.call.warm_up,
                                  res |-> res])]
\* A call begins
Began(c, op, warm_up, pc) == [c EXCEPT !.call = [op |-> op, warm_up |-> warm_up, pc |-> pc]]

\* connect(warm_up), from a call of its own or from get_dividends, up to its
\* first suspension: with a substrate already there it does nothing at all;
\* else it creates the substrate and awaits get_chain_head.
ConnectFrom(c, op, warm_up) ==
    IF c.substrate = "None"
    THEN [Began(c, op, warm_up, "head") EXCEPT !.substrate = "set"]
    ELSE Began(c, op, warm_up, "connected")

\* _warm_up up to its first suspension: nothing when warmed up already
WarmUpFrom(c) == IF ~c.is_warmed_up THEN [c EXCEPT !.call.pc = "warm"]
                 ELSE [c EXCEPT !.call.pc = "connected"]

\* connect has returned: its own call returns, get_dividends goes on to its
\* queries
AfterConnect(c) ==
    IF c.call.pc # "connected" THEN c
    ELSE IF c.call.op = "connect" THEN Ended(c, "returned")
    ELSE [c EXCEPT !.call.pc = "query"]

ConnectCall(warm_up) ==
    /\ ClientIdle /\ Len(client.done) < MaxClientCalls
    /\ client' = AfterConnect(ConnectFrom(client, "connect", warm_up))
    /\ lastOp' = Op("connect", client'.call.pc, "")
    /\ ClientFrame

\* get_chain_head returns or raises (the substrate stays assigned)
ConnectHeadDone(ok) ==
    /\ client.call.pc = "head"
    /\ client' = IF ~ok THEN Ended(client, "raised")
                  ELSE IF client.call.warm_up THEN AfterConnect(WarmUpFrom(client))
                  ELSE AfterConnect([client EXCEPT !.call.pc = "connected"])
    /\ lastOp' = Op(client.call.op, client'.call.pc, "")
    /\ ClientFrame

\* The queries of _warm_up return (is_warmed_up = True) or one of them raises
WarmUpDone(ok) ==
    /\ client.call.pc = "warm"
    /\ client' = IF ~ok THEN Ended(client, "raised")
                  ELSE AfterConnect([client EXCEPT !.is_warmed_up = TRUE,
                                                   !.call.pc = "connected"])
    /\ lastOp' = Op(client.call.op, client'.call.pc, "")
    /\ ClientFrame

\* close(): nothing without substrate, else awaits substrate.close()
CloseCall ==
    /\ ClientIdle /\ Len(client.done) < MaxClientCalls
    /\ client' = IF client.substrate = "None"
                  THEN Ended(Began(client, "close", FALSE, "closing"), "returned")
                  ELSE Began(client, "close", FALSE, "closing")
    /\ lastOp' = Op("close", client'.call.pc, "")
    /\ ClientFrame

CloseDone(ok) ==
    /\ client.call.pc = "closing"
    /\ client' = IF ~ok THEN Ended(client, "raised")
                  ELSE Ended([client EXCEPT !.substrate = "None",
                                            !.is_warmed_up = FALSE], "returned")
    /\ lastOp' = Op("close", client'.call.pc, "")
    /\ ClientFrame

\* get_dividends: connect() first when there is no substrate, then the
\* queries, whose exception is logged and raised again
GetDividendsCall ==
    /\ ClientIdle /\ Len(client.done) < MaxClientCalls
    /\ client' = IF client.substrate = "None"
                  THEN ConnectFrom(client, "get_dividends", TRUE)
                  ELSE Began(client, "get_dividends", TRUE, "query")
    /\ lastOp' = Op("get_dividends", client'.call.pc, "")
    /\ ClientFrame

QueryDone(ok) ==
    /\ client.call.pc = "query"
    /\ client' = Ended(client, IF ok THEN "returned" ELSE "raised")
    /\ lastOp' = Op("get_dividends", client'.call.pc, "")
    /\ ClientFrame

ClientNext ==
    \/ \E warm_up \in BOOLEAN : ConnectCall(warm_up)
    \/ \E ok \in BOOLEAN : ConnectHeadDone(ok)
    \/ \E ok \in BOOLEAN : WarmUpDone(ok)
    \/ CloseCall
    \/ \E ok \in BOOLEAN : CloseDone(ok)
    \/ GetDividendsCall
    \/ \E ok \in BOOLEAN : QueryDone(ok)

SpecClient == Init /\ [][ClientNext]_vars

\* ------------------------------------------------ overlapping lifecycle calls
OverlapFrame == UNCHANGED <<requestVars, wallet, tradeCalls, added, client, lookups>>

\* The timer task that asyncio.create_task makes: the free one lowest in
\* number
NewTimer == CHOOSE j \in TimerIds :
                /\ timers[j].pc = "free"
                /\ \A m \in TimerIds : timers[m].pc = "free" => j <= m

\* A start() call made while another start() or a stop() is in progress:
\* returns at once when running, else begins the schema creation.
OverlapStartCall ==
    /\ startPc2 = "idle"
    /\ ~Sequential
    /\ IF StartGuard
       THEN /\ lastOp' = Op("start", "noop", "")
            /\ UNCHANGED startPc2
       ELSE /\ startPc2' = "schema"
            /\ lastOp' = Op("start", "schema", "")
    /\ UNCHANGED <<storageVars, historyVars>>
    /\ OverlapFrame

\* Its schema creation returns (self._running = True, the timer task is
\* created and assigned to self._task) or raises.
OverlapStartSchemaDone(ok) ==
    /\ startPc2 = "schema"
    /\ startPc2' = "idle"
    /\ IF ok
       THEN /\ \E i \in TimerIds : timers[i].pc = "free"
            /\ timers' = [timers EXCEPT ![NewTimer] =
                             [pc |-> "new", kind |-> NoKind, items |-> <<>>]]
            /\ _task' = NewTimer
            /\ _running' = TRUE
            /\ lastOp' = Op("start", "started", "")
       ELSE /\ lastOp' = Op("start", "raised", "")
            /\ UNCHANGED <<_running, _task, timers>>
    /\ UNCHANGED <<queues, store, startPc, stopCall, scheduled, flushers, nextId,
                   historyVars>>
    /\ OverlapFrame

\* The persistor with lifecycle calls that overlap
OverlapNext ==
    \/ queue_item("tweets")
    \/ \E i \in TimerIds : TimerStart(i)
    \/ \E i \in TimerIds : TimerWake(i)
    \/ \E i \in TimerIds, ok \in BOOLEAN : TimerWriteDone(i, ok)
    \/ Sequential /\ StartCall
    \/ \E ok \in BOOLEAN : StartSchemaDone(ok)
    \/ OverlapStartCall
    \/ \E ok \in BOOLEAN : OverlapStartSchemaDone(ok)
    \/ startPc = "idle" /\ StopCall
    \/ StopResume
    \/ \E ok \in BOOLEAN : StopWriteDone(ok)

SpecOverlap == Init /\ [][OverlapNext]_vars

\* ------------------------------------------------------ get_tao_dividends
\* The request arrives: a request_id is generated and the cache is read
\* (get_cached_result gives None when Redis fails).  On a hit the cached
\* answer is returned with cached = True; on a miss the call suspends in
\* dividend_service.get_dividends.
\* request_id is a local variable of the call (a variable shared by the
\* calls would hold the id of the call that began last)
RequestIdShared(c) == nextReq - 1
RequestIdOf(c) == c.request_id

LogEntry(netuid, hotkey, trade, fetched) ==
    [netuid |-> netuid, hotkey |-> hotkey, trade |-> trade,
     overlapped |-> {c.request_id : c \in calls},
     fetched |-> fetched, launched |-> FALSE, ttl_over |-> FALSE]

HandleBegin(netuid, hotkey, trade, cacheUp) ==
    /\ nextReq <= MaxCalls
    /\ nextReq' = nextReq + 1
    /\ LET key == CacheKey(netuid, hotkey, trade)
           cached_result == IF cacheUp THEN Loads(RedisGet(cache, key)) ELSE NoEntry
       IN IF GetCacheRaises(cacheUp)
          THEN /\ answers' = Append(answers, NoEntry)
               /\ log' = Append(log, LogEntry(netuid, hotkey, trade, FALSE))
               /\ lastOp' = Op("get_tao_dividends", "raised", "get_cache")
               /\ UNCHANGED calls
          ELSE IF CacheHit(cached_result)
          THEN /\ answers' = Append(answers, MarkCached(cached_result))
               /\ log' = Append(log, LogEntry(netuid, hotkey, trade, FALSE))
               /\ lastOp' = Op("get_tao_dividends", "hit", "")
               /\ UNCHANGED calls
          ELSE /\ calls' = calls \cup {[request_id |-> nextReq, netuid |-> netuid,
                                        hotkey |-> hotkey, trade |-> trade]}
               /\ answers' = Append(answers, NoEntry)
               /\ log' = Append(log, LogEntry(netuid, hotkey, trade, TRUE))
               /\ lastOp' = Op("get_tao_dividends",
                               IF cacheUp THEN "miss" ELSE "miss_cache_error", "")
    /\ UNCHANGED <<cache, pipelines, storageVars, historyVars, serviceVars>>

\* The primary fetch returns or raises.  When it returns: add_dividends
\* queues the primary record (its orjson.dumps of the dividends may raise),
\* ExecuteService.trade creates the background task when trade is set, the
\* answer is built and written to the cache (set_cached_result gives False
\* when Redis fails), and returned.
\* dividends = await dividend_service.get_dividends(netuid, hotkey): what
\* get_dividends raises (it logs and re-raises) is caught nowhere in the
\* handler, so the statements after the await are not reached.
FetchRaisesSwallowed(ok) == FALSE
FetchRaises(ok) == ~ok

HandleFetchDone(c, data, ok, cacheUp) ==
    /\ c \in calls
    /\ calls' = calls \ {c}
    /\ LET dividends == GetDividendsResult(c.netuid, data)
           input_netuid == OrDefault(c.netuid, default_netuid)
           request_id == RequestIdOf(c)
           result == [dividends |-> ValidateDividends(dividends), cached |-> FALSE,
                      collected_at |-> [datetime |-> c.request_id],
                      trade |-> TradeInstant(c.trade, input_netuid),
                      request_id |-> request_id]
           key == CacheKey(c.netuid, c.hotkey, c.trade)
       IN IF FetchRaises(ok)
          THEN /\ lastOp' = Op("get_tao_dividends", "raised", "get_dividends")
               /\ UNCHANGED <<queues, nextId, scheduled, pipelines, log, cache, answers>>
          ELSE IF OrjsonDumpsRaises(dividends)
          THEN /\ lastOp' = Op("get_tao_dividends", "raised", "add_dividends")
               /\ UNCHANGED <<queues, nextId, scheduled, pipelines, log, cache, answers>>
          ELSE /\ Enqueue("dividends", request_id)
               /\ pipelines' = IF Launches(c.trade)
                               THEN pipelines (+) SetToBag({CreateTask(
                                        [request_id |-> request_id,
                                         netuid |-> input_netuid,
                                         hotkey |-> OrDefault(c.hotkey, default_hotkey)])})
                               ELSE pipelines
               /\ log' = [log EXCEPT ![c.request_id].launched = c.trade]
               /\ cache' = IF cacheUp THEN RedisSet(cache, key, Dumps(result))
                           ELSE cache
               /\ answers' = [answers EXCEPT ![c.request_id] = result]
               /\ lastOp' = Op("get_tao_dividends", "returned",
                               IF cacheUp THEN "cache_set" ELSE "cache_error")
    /\ UNCHANGED <<nextReq, store, _running, _task, timers, startPc, stopCall,
                   flushers, historyVars, serviceVars>>

\* The ttl (ex=ttl) of an entry runs out; the entry stays in memory until
\* Redis removes it.  By then the ttl of everything written under the key
\* before has run out too.
CacheExpire(key) ==
    /\ cache[key] # NoEntry
    /\ ~cache[key].expired
    /\ cache' = [cache EXCEPT ![key].expired = TRUE]
    /\ log' = [r \in DOMAIN log |->
                 IF CacheKey(log[r].netuid, log[r].hotkey, log[r].trade) = key
                    /\ answers[r] # NoEntry /\ ~answers[r].cached
                 THEN [log[r] EXCEPT !.ttl_over = TRUE] ELSE log[r]]
    /\ lastOp' = Op("redis", "expired", "")
    /\ UNCHANGED <<calls, pipelines, answers, nextReq, storageVars, historyVars,
                   serviceVars>>

\* Redis removes an entry whose ttl has run out.
CacheEvict(key) ==
    /\ cache[key] # NoEntry
    /\ cache[key].expired
    /\ cache' = [cache EXCEPT ![key] = NoEntry]
    /\ lastOp' = Op("redis", "evicted", "")
    /\ UNCHANGED <<calls, pipelines, answers, nextReq, log, storageVars, historyVars,
                   serviceVars>>

\* ------------------------------------------------------ background_process
PipelineFrame ==
    UNCHANGED <<cache, calls, answers, nextReq, log, store, _running, _task,
                timers, startPc, stopCall, flushers, historyVars, serviceVars>>
Replace(p, p2) == pipelines' = (pipelines (-) SetToBag({p})) (+) SetToBag({p2})

\* The task gets its first turn: get_bittensor_tweets is called and suspends
\* in the request to the tweets API.
PipelineStart(p) ==
    /\ p.pc = "created"
    /\ Replace(p, [p EXCEPT !.pc = "tweets", !.called = {"get_bittensor_tweets"}])
    /\ lastOp' = Op("background_process", "started", "")
    /\ UNCHANGED <<queues, nextId, scheduled>>
    /\ PipelineFrame

\* sentiment_tweets with no tweet returns at once, unsuccessful
NoTweetsResultSuccess == [sentiment |-> 0, is_success |-> TRUE, tweets_count |-> 0]
NoTweetsResult == [sentiment |-> 0, is_success |-> FALSE, tweets_count |-> 0]

\* The tweets API answers (n tweets) or fails (caught: is_success False, no
\* tweets).  add_twitter queues the tweets; after a failure the run ends.
\* Otherwise sentiment_tweets is called: with no tweets it returns at once,
\* unsuccessful, add_sentiment queues its record and the run ends; with
\* tweets it suspends in the request to the LLM.
TweetsDone(p, ok, n) ==
    /\ p.pc = "tweets"
    /\ LET tweets_result == [is_success |-> ok,
                             tweets |-> IF ok THEN TweetTexts(n) ELSE <<>>]
           st1 == add_twitter(Persistor, tweets_result, p.request_id)
           pa == [p EXCEPT !.a = IF ok THEN "ok" ELSE "failed",
                           !.tweets = tweets_result.tweets]
       IN IF ~Continues(tweets_result.is_success)
          THEN /\ Commit(st1)
               /\ Replace(p, [pa EXCEPT !.pc = "done"])
          ELSE IF tweets_result.tweets = <<>>
          THEN /\ Commit(add_sentiment(st1, NoTweetsResult, <<>>, p.request_id))
               /\ Replace(p, [pa EXCEPT !.pc = "done",
                                        !.b = IF NoTweetsResult.is_success
                                              THEN "ok" ELSE "failed",
                                        !.called = @ \cup {"sentiment_tweets"}])
          ELSE /\ Commit(st1)
               /\ Replace(p, [pa EXCEPT !.pc = "sentiment",
                                        !.called = @ \cup {"sentiment_tweets", "invoke_chute"}])
    /\ lastOp' = Op("background_process", "tweets", IF ok THEN "ok" ELSE "failed")
    /\ PipelineFrame

\* The LLM request raises (nothing catches it: the task ends there) or
\* answers with the text content between the score tags: with no digit in
\* it the result is unsuccessful, else the score is the first run of digits.
\* add_sentiment queues the record and the tweets; after a success
\* trade_service.trade is called: with no wallet or another hotkey, or with
\* a score of 0, it returns at once, else it suspends in the chain call.
SentimentDone(p, outcome, content, walletOk) ==
    /\ p.pc = "sentiment"
    /\ IF outcome = "raised"
       THEN /\ Replace(p, [p EXCEPT !.pc = "crashed", !.b = "raised"])
            /\ UNCHANGED <<queues, nextId, scheduled>>
            /\ lastOp' = Op("background_process", "sentiment", "raised")
       ELSE LET score_match == ScoreMatch(content) # <<>>
                sentiment_result ==
                    [sentiment |-> IF score_match THEN ExtractScore(content) ELSE 0,
                     is_success |-> score_match, tweets_count |-> Len(p.tweets)]
                st1 == add_sentiment(Persistor, sentiment_result, p.tweets, p.request_id)
                pb == [p EXCEPT !.b = IF sentiment_result.is_success THEN "ok" ELSE "failed",
                                !.reported = content,
                                !.sentiment = sentiment_result.sentiment]
                action == TradeAction(sentiment_result.sentiment)
            IN /\ lastOp' = Op("background_process", "sentiment",
                               IF score_match THEN "score" ELSE "no_score")
               /\ IF ~Continues(sentiment_result.is_success)
                  THEN /\ Commit(st1)
                       /\ Replace(p, [pb EXCEPT !.pc = "done"])
                  ELSE IF ~walletOk \/ action = "none"
                  THEN /\ Commit(add_trade(st1, [is_success |-> walletOk], p.request_id))
                       /\ Replace(p, [pb EXCEPT !.pc = "done", !.called = @ \cup {"trade"},
                                                !.c = IF walletOk THEN "ok" ELSE "failed"])
                  ELSE /\ Commit(st1)
                       /\ Replace(p, [pb EXCEPT !.pc = "trade",
                                                !.called = @ \cup {"trade", action}])
    /\ PipelineFrame

\* The chain call returns (staked or not) or raises (caught by trade);
\* add_trade queues the record and the run ends.
TradeDone(p, ok) ==
    /\ p.pc = "trade"
    /\ Commit(add_trade(Persistor, [is_success |-> ok], p.request_id))
    /\ Replace(p, [p EXCEPT !.pc = "done", !.c = IF ok THEN "ok" ELSE "failed"])
    /\ lastOp' = Op("background_process", "trade", IF ok THEN "ok" ELSE "failed")
    /\ PipelineFrame

GateNext ==
    \/ \E n \in NetuidArgs, h \in HotkeyArgs, t \in BOOLEAN, up \in BOOLEAN :
           HandleBegin(n, h, t, up)
    \/ \E c \in calls, d \in DividendValues, ok \in BOOLEAN, up \in BOOLEAN :
           HandleFetchDone(c, d, ok, up)
    \/ \E key \in CacheKeys : CacheExpire(key)
    \/ \E key \in CacheKeys : CacheEvict(key)

SpecGate == Init /\ [][GateNext]_vars

\* Requests with any text as netuid and hotkey.  The chain takes a netuid
\* as a number: the fetch for a netuid that is not one raises.
KeyNext ==
    \/ \E n \in KeyNetuidArgs, h \in KeyHotkeyArgs, t \in BOOLEAN :
           HandleBegin(n, h, t, TRUE)
    \/ \E c \in calls, ok \in BOOLEAN :
           /\ ok => c.netuid \in NetuidArgs
           /\ HandleFetchDone(c, "d1", ok, TRUE)

SpecKey == Init /\ [][KeyNext]_vars

\* The requests together with the pipeline runs they launch
PipeNext ==
    \/ \E n \in NetuidArgs, h \in HotkeyArgs, t \in BOOLEAN, up \in BOOLEAN :
           HandleBegin(n, h, t, up)
    \/ \E c \in calls, d \in DividendValues, ok \in BOOLEAN, up \in BOOLEAN :
           HandleFetchDone(c, d, ok, up)
    \/ \E p \in BagToSet(pipelines) : PipelineStart(p)
    \/ \E p \in BagToSet(pipelines), ok \in BOOLEAN, n \in 0..MaxTweets :
           TweetsDone(p, ok, n)
    \/ \E p \in BagToSet(pipelines), outcome \in {"raised", "answered"},
          content \in ScoreTexts, walletOk \in BOOLEAN :
           SentimentDone(p, outcome, content, walletOk)
    \/ \E p \in BagToSet(pipelines), ok \in BOOLEAN : TradeDone(p, ok)

SpecPipe == Init /\ [][PipeNext]_vars

\* The requests, their pipeline runs and the size-triggered flushes of the
\* records they queue
PipeFlushNext ==
    \/ \E t \in BOOLEAN : HandleBegin(<<"18">>, <<>>, t, TRUE)
    \/ \E c \in calls, ok \in BOOLEAN : HandleFetchDone(c, "d1", ok, TRUE)
    \/ \E p \in BagToSet(pipelines) : PipelineStart(p)
    \/ \E p \in BagToSet(pipelines), ok \in BOOLEAN, n \in 0..MaxTweets :
           TweetsDone(p, ok, n)
    \/ \E p \in BagToSet(pipelines), outcome \in {"raised", "answered"},
          content \in {<<>>, <<"5">>} :
           SentimentDone(p, outcome, content, TRUE)
    \/ \E p \in BagToSet(pipelines), ok \in BOOLEAN : TradeDone(p, ok)
    \/ \E k \in Kinds : FlushRun(k)
    \/ \E f \in BagToSet(flushers) : FlushWriteDone(f, TRUE)

\* (the durable writes return here; those that raise are followed in Spec)
SpecPipeFlush == Init /\ [][PipeFlushNext]_vars

\* no request is being handled and no run is in progress
Quiet == calls = {} /\ \A p \in BagToSet(pipelines) : p.pc \in {"done", "crashed"}

\* The lifespan of main.py around the requests: storage.start() before the
\* application serves, storage.stop() when it shuts down, while the runs
\* created by ExecuteService.trade are tasks of the same event loop that
\* nothing awaits or cancels.  The durable writes succeed.
ShutdownNext ==
    \/ Quiet /\ HandleBegin(<<"18">>, <<>>, TRUE, TRUE)
    \/ \E c \in calls : HandleFetchDone(c, "d1", TRUE, TRUE)
    \/ \E p \in BagToSet(pipelines) : PipelineStart(p)
    \/ \E p \in BagToSet(pipelines), ok \in BOOLEAN : TweetsDone(p, ok, MaxTweets)
    \/ \E p \in BagToSet(pipelines), outcome \in {"raised", "answered"} :
           SentimentDone(p, outcome, <<"5">>, TRUE)
    \/ \E p \in BagToSet(pipelines), ok \in BOOLEAN : TradeDone(p, ok)
    \/ \E k \in Kinds : FlushRun(k)
    \/ \E f \in BagToSet(flushers) : FlushWriteDone(f, TRUE)
    \/ \E i \in TimerIds : TimerStart(i)
    \/ \E i \in TimerIds : TimerWake(i)
    \/ \E i \in TimerIds : TimerWriteDone(i, TRUE)
    \/ Sequential /\ StartCall
    \/ StartSchemaDone(TRUE)
    \/ Sequential /\ StopCall
    \/ StopResume
    \/ StopWriteDone(TRUE)

\* The event loop gives every ready task its turn: the timer, the flushes,
\* a start() or stop() in progress, a request being handled and every stage
\* of every run.
RunFairness ==
    /\ WF_vars(\E p \in BagToSet(pipelines) : PipelineStart(p))
    /\ WF_vars(\E p \in BagToSet(pipelines), ok \in BOOLEAN :
                   TweetsDone(p, ok, MaxTweets))
    /\ WF_vars(\E p \in BagToSet(pipelines), outcome \in {"raised", "answered"} :
                   SentimentDone(p, outcome, <<"5">>, TRUE))
    /\ WF_vars(\E p \in BagToSet(pipelines), ok \in BOOLEAN : TradeDone(p, ok))
    /\ WF_vars(\E k \in Kinds : FlushRun(k))
    /\ WF_vars(\E c \in calls : HandleFetchDone(c, "d1", TRUE, TRUE))
    /\ WF_vars(StartSchemaDone(TRUE))
ShutdownSpec ==
    Init /\ [][ShutdownNext]_vars /\ Fairness /\ StopFairness /\ RunFairness

\* ------------------------------------------------- add_sentiment, directly
\* The lists of at most MaxSupplied tweets, each with one of two texts
RECURSIVE TweetLists(_)
TweetLists(n) ==
    IF n = 0 THEN {<<>>}
    ELSE TweetLists(n - 1)
         \cup {Append(l, t) : l \in {x \in TweetLists(n - 1) : Len(x) = n - 1},
                              t \in {"t1", "t2"}}

\* add_sentiment(sentiment, tweets, request_id) called on the persistor
AddSentimentCall(is_success, tweets, rid) ==
    /\ nextId <= MaxRecords
    /\ Commit(add_sentiment(Persistor, [is_success |-> is_success], tweets, rid))
    /\ added' = [is_success |-> is_success, tweets |-> tweets, request_id |-> rid]
    /\ lastOp' = Op("add_sentiment", "queued", "")
    /\ UNCHANGED <<store, _running, _task, timers, startPc, stopCall, flushers,
                   historyVars, requestVars, wallet, tradeCalls, startPc2, client,
                   lookups>>

\* Direct calls of add_sentiment among records of every kind queued before
AddNext ==
    \/ \E k \in Kinds : queue_item(k)
    \/ \E is_success \in BOOLEAN, tweets \in TweetLists(MaxSupplied), rid \in 1..2 :
           AddSentimentCall(is_success, tweets, rid)

SpecAdd == Init /\ [][AddNext]_vars

\* -------------------------------------------------------- get_storage_data
\* The rows of one table with the request_id asked for
Rows(rid, k) == {x \in BagToSet(store) : x.request_id = rid /\ x.kind = k}

\* result.scalars().first() is one of the rows, or None; .all() is all of
\* them.  Each is given as the set of the results the query can have.
ScalarsFirst(rows) == IF rows = {} THEN {{}} ELSE {{r} : r \in rows}
ScalarsAllAsFirst(rows) == ScalarsFirst(rows)
ScalarsAll(rows) == {rows}

LookupOrder == <<"tweets", "sentiment_analyses", "trades", "dividends">>
LookupFrame == UNCHANGED <<requestVars, storageVars, historyVars, wallet, tradeCalls,
                           added, startPc2, client>>

\* get_storage_data(request_id) up to its first query, on the tweets table
LookupBegin(rid) ==
    /\ Len(lookups) < MaxLookups
    /\ lookups' = Append(lookups,
           [request_id |-> rid, pc |-> 1,
            begun |-> {x \in BagToSet(store) : x.request_id = rid},
            rows |-> [k \in Kinds |-> {}]])
    /\ lastOp' = Op("get_storage_data", "tweets", "")
    /\ LookupFrame

\* The query in progress returns or raises (answered with status 500); the
\* next of the four queries begins, or the answer is returned.
LookupRead(i, ok) ==
    /\ i \in DOMAIN lookups
    /\ lookups[i].pc \in DOMAIN LookupOrder
    /\ LET l == lookups[i]
           k == LookupOrder[l.pc]
           found == Rows(l.request_id, k)
       IN IF ~ok
          THEN /\ lookups' = [lookups EXCEPT ![i].pc = 0]
               /\ lastOp' = Op("get_storage_data", "HTTPException", k)
          ELSE /\ \E result \in (IF k = "tweets" THEN ScalarsAll(found)
                                   ELSE ScalarsFirst(found)) :
                      lookups' = [lookups EXCEPT ![i].rows[k] = result,
                                                 ![i].pc = @ + 1]
               /\ lastOp' = Op("get_storage_data",
                               IF l.pc = Len(LookupOrder) THEN "returned" ELSE "read", k)
    /\ LookupFrame

\* Requests that arrive one after the other's run has ended, their runs,
\* the flushes, and the lookups at any moment between them
LookupNext ==
    \/ \E h \in HotkeyArgs : Quiet /\ HandleBegin(<<"18">>, h, TRUE, TRUE)
    \/ \E c \in calls : HandleFetchDone(c, "d1", TRUE, TRUE)
    \/ \E p \in BagToSet(pipelines) : PipelineStart(p)
    \/ \E p \in BagToSet(pipelines) : TweetsDone(p, TRUE, MaxTweets)
    \/ \E p \in BagToSet(pipelines) : SentimentDone(p, "answered", <<"5">>, TRUE)
    \/ \E p \in BagToSet(pipelines) : TradeDone(p, TRUE)
    \/ \E k \in Kinds : FlushRun(k)
    \/ \E f \in BagToSet(flushers) : FlushWriteDone(f, TRUE)
    \/ \E rid \in 1..(MaxCalls + 1) : LookupBegin(rid)
    \/ \E i \in DOMAIN lookups, ok \in BOOLEAN : LookupRead(i, ok)

SpecLookup == Init /\ [][LookupNext]_vars

\* ------------------------------------------------------------ TradeService
WalletHotkeys == {"default_hotkey", "hk1"}
TradeHotkeys == {"default_hotkey", "hk1"}
SentimentValues == {0 - 100, 0 - 1, 0, 1, 100}
NoAmount == 0 - 1
TradeFrame == UNCHANGED <<requestVars, storageVars, historyVars, added, startPc2,
                          client, lookups>>

\* abs(0.01 * sentiment), counted in hundredths of a TAO
amount_tao(sentiment) == IF sentiment < 0 THEN 0 - sentiment ELSE sentiment

\* finally: return result discards the exception in flight
FinallyReraises(raised) == raised
FinallyReturn(raised) == FALSE

\* initialize(password), called once when the application starts: Wallet()
\* may raise (the wallet stays None); the wallet is assigned before the
\* password is saved and the coldkey unlocked, each of which may fail.
initialize(outcome, hotkey) ==
    /\ wallet = NoWallet /\ tradeCalls = <<>>
    /\ wallet' = IF outcome = "wallet_error" THEN NoWallet
                  ELSE [is_none |-> FALSE, hotkey |-> hotkey,
                        unlocked |-> outcome = "ok"]
    /\ lastOp' = Op("initialize", outcome, "")
    /\ UNCHANGED tradeCalls
    /\ TradeFrame

\* trade(netuid_for_trade, hotkey, sentiment) up to its first suspension:
\* the two checks raise ValueError inside the try, before amount is set;
\* then amount is set and add_stake or unstake sets result.action and
\* suspends in the chain call, or, for 0, the result is a success at once.
TradeBegin(netuid, hotkey, sentiment) ==
    /\ Len(tradeCalls) < MaxTrades
    /\ LET precheck == IF wallet.is_none THEN "no_wallet"
                        ELSE IF hotkey # wallet.hotkey THEN "hotkey_mismatch"
                        ELSE "ok"
           action == TradeAction(sentiment)
           call == [netuid |-> netuid, hotkey |-> hotkey, sentiment |-> sentiment,
                    precheck |-> precheck, chain |-> <<>>, outcome |-> "",
                    pc |-> "returned", propagated |-> FALSE,
                    is_success |-> FALSE, action |-> "None", amount |-> NoAmount,
                    message |-> ""]
       IN IF precheck # "ok"
          THEN /\ tradeCalls' = Append(tradeCalls,
                       [call EXCEPT !.message = "Trade execution error",
                                    !.propagated = FinallyReturn(TRUE)])
               /\ lastOp' = Op("trade", "returned", precheck)
          ELSE IF action = "none"
          THEN /\ tradeCalls' = Append(tradeCalls,
                       [call EXCEPT !.amount = amount_tao(sentiment),
                                    !.is_success = TRUE,
                                    !.message = "No action taken"])
               /\ lastOp' = Op("trade", "returned", "none")
          ELSE /\ tradeCalls' = Append(tradeCalls,
                       [call EXCEPT !.amount = amount_tao(sentiment),
                                    !.action = IF action = "add_stake" THEN "stake"
                                               ELSE "unstake",
                                    !.chain = <<action>>,
                                    !.pc = "chain"])
               /\ lastOp' = Op("trade", "chain", action)
    /\ UNCHANGED wallet
    /\ TradeFrame

\* The chain call returns True or False, or raises (a locked coldkey cannot
\* sign, so it does not return True); trade returns its result.
TradeChainDone(i, outcome) ==
    /\ i \in DOMAIN tradeCalls
    /\ tradeCalls[i].pc = "chain"
    /\ outcome = "true" => wallet.unlocked
    /\ tradeCalls' = [tradeCalls EXCEPT ![i] =
           [@ EXCEPT !.pc = "returned", !.outcome = outcome,
                     !.is_success = (outcome = "true"),
                     !.propagated = FinallyReturn(outcome = "raised"),
                     !.message = IF outcome = "true" THEN "Successfully"
                                 ELSE IF outcome = "false" THEN "Failed"
                                 ELSE "Trade execution error"]]
    /\ lastOp' = Op("trade", "returned", outcome)
    /\ UNCHANGED wallet
    /\ TradeFrame

TradeNext ==
    \/ \E outcome \in {"wallet_error", "password_error", "unlock_error", "ok"},
          hotkey \in WalletHotkeys : initialize(outcome, hotkey)
    \/ \E hotkey \in TradeHotkeys, sentiment \in SentimentValues :
           TradeBegin("18", hotkey, sentiment)
    \/ \E i \in DOMAIN tradeCalls, outcome \in {"true", "false", "raised"} :
           TradeChainDone(i, outcome)

SpecTrade == Init /\ [][TradeNext]_vars

\* ----------------------------------------------------- where the records are
\* The queues one after the other, in the dict's order
RECURSIVE QueuedFrom(_)
QueuedFrom(i) == IF i > Len(KindOrder) THEN <<>>
                 ELSE queues[KindOrder[i]] \o QueuedFrom(i + 1)
AllQueued == QueuedFrom(1)

\* The batches of the durable writes in progress, as a bag of [kind, items]
RECURSIVE TimerBatchesUpTo(_)
TimerBatchesUpTo(i) ==
    IF i = 0 THEN EmptyBag
    ELSE TimerBatchesUpTo(i - 1) (+)
         (IF timers[i].pc = "write"
          THEN SetToBag({[kind |-> KindOrder[timers[i].kind], items |-> timers[i].items]})
          ELSE EmptyBag)
StopBatches ==
    IF stopCall.pc = "write"
    THEN SetToBag({[kind |-> KindOrder[stopCall.kind], items |-> stopCall.items]})
    ELSE EmptyBag
PeriodicBatches == TimerBatchesUpTo(MaxTimers) (+) StopBatches
AllBatches == PeriodicBatches (+) flushers

\* Number of copies of the record object n in a sequence, in the batches of
\* a bag, in the Record Store
IdCount(s, n) == Cardinality({i \in DOMAIN s : s[i].id = n})
RECURSIVE BatchCount(_, _)
BatchCount(B, n) ==
    IF BagToSet(B) = {} THEN 0
    ELSE LET b == CHOOSE x \in BagToSet(B) : TRUE IN
         CopiesIn(b, B) * IdCount(b.items, n)
         + BatchCount([x \in BagToSet(B) \ {b} |-> B[x]], n)
RECURSIVE StoreCount(_, _)
StoreCount(S, n) ==
    IF BagToSet(S) = {} THEN 0
    ELSE LET r == CHOOSE x \in BagToSet(S) : TRUE IN
         (IF r.id = n THEN CopiesIn(r, S) ELSE 0)
         + StoreCount([x \in BagToSet(S) \ {r} |-> S[x]], n)

Queued(n) == IdCount(AllQueued, n)
InFlight(n) == BatchCount(AllBatches, n)
Stored(n) == StoreCount(store, n)
Enqueued == 1..(nextId - 1)

\* ---------------------------------------------------------------- claims
\* C1: every record ever enqueued is at all times in exactly one place: a
\* queue, the batch of one durable write in progress, or the Record Store;
\* never in none of them and never in two.
C1_ExactlyOnePlace ==
    /\ \A n \in Enqueued : Queued(n) + InFlight(n) + Stored(n) = 1
    /\ \A n \in 1..MaxRecords \ Enqueued : Queued(n) + InFlight(n) + Stored(n) = 0

\* A failed write has put its batch back in the queue, behind a record that
\* was enqueued while the write was in progress.
C1_Witness ==
    /\ lastOp.write = "failed"
    /\ \E k \in Kinds : Len(queues[k]) >= 2 /\ queues[k][2].id < queues[k][1].id

\* The batches whose durable write returns in a step, and those a step
\* swaps out of a queue
Completed(b) == CopiesIn(b, AllBatches') < CopiesIn(b, AllBatches)
Swapped(b) == CopiesIn(b, AllBatches') > CopiesIn(b, AllBatches)
EnqueueStep == lastOp'.op = "queue_item" /\ nextId' = nextId + 1

\* C2: a flush takes a queue's whole contents and leaves an empty queue in
\* one step; a record enqueued while a durable write is in progress joins no
\* batch and stays in the queue; no record is in two batches at once, nor in
\* a batch and in a queue, whichever of the periodic and size-triggered
\* flushers run together.
C2_NoSharedRecord ==
    \A n \in 1..MaxRecords : InFlight(n) <= 1 /\ (InFlight(n) = 1 => Queued(n) = 0)
C2_Step ==
    /\ \A b \in BagToSet(AllBatches') :
           Swapped(b) => /\ b.items = queues[b.kind]
                         /\ queues'[b.kind] = <<>>
                         /\ \A n \in Enqueued' \ Enqueued : IdCount(b.items, n) = 0
    /\ EnqueueStep => /\ AllBatches' = AllBatches
                      /\ \A n \in Enqueued' \ Enqueued :
                             Queued(n)' = 1 /\ InFlight(n)' = 0
C2_AtomicSwap == []C2_NoSharedRecord /\ [][C2_Step]_vars

\* The timer task and a size-triggered task are both in the durable write of
\* a batch of the same kind.
C2_Witness ==
    \E b \in BagToSet(PeriodicBatches), f \in BagToSet(flushers) : b.kind = f.kind

\* C3: when the durable write of a batch fails, the batch is back in its
\* queue; the next flush of that kind takes it with the rest of the queue;
\* and when that write succeeds each of its records is in the Record Store
\* exactly once and in no queue, and stays so.
C3_Step ==
    /\ \A b \in BagToSet(AllBatches) :
           Completed(b) =>
               \A r \in Range(b.items) :
                   IF lastOp'.write = "failed"
                   THEN /\ CountIn(queues'[b.kind], r) = 1
                        /\ Queued(r.id)' = 1 /\ Stored(r.id)' = 0
                   ELSE r \in failed =>
                        /\ CopiesIn(r, store') = 1
                        /\ Queued(r.id)' = 0 /\ InFlight(r.id)' = 0
    /\ \A b \in BagToSet(AllBatches') :
           Swapped(b) => failed \cap Range(queues[b.kind]) \subseteq Range(b.items)
C3_StoredOnce ==
    \A r \in BagToSet(store) : CopiesIn(r, store) = 1 /\ Queued(r.id) = 0
C3_RetryStoresOnce == [][C3_Step]_vars /\ []C3_StoredOnce

\* The write of a batch that a failed write had put back has succeeded.
C3_Witness == lastOp.write = "resaved" /\ store # EmptyBag

\* C4: while the persistor is running a failed flush does not end the timer
\* task; and, with durable writes that do not fail for ever, whenever the
\* persistor is running every record enqueued is in the end in the Record
\* Store, by the periodic flushes alone (no enqueue and no lifecycle call is
\* needed for it), unless stop() is called first.
C4_TimerSurvivesFailure ==
    [][\A i \in TimerIds :
          (timers[i].pc = "write" /\ lastOp'.write = "failed" /\ _running
           /\ timers'[i] # timers[i])
          => timers'[i].pc \in {"sleep", "write"}]_vars
C4_EventuallyStored ==
    /\ C4_TimerSurvivesFailure
    /\ [](_running => <>(~_running \/ \A n \in Enqueued : Stored(n) = 1))

\* After a failed write of the running timer task the batch waits in the
\* queue for the next tick.
C4_Witness ==
    /\ _running /\ lastOp.op = "_save_all" /\ lastOp.write = "failed"
    /\ \E i \in TimerIds : timers[i].pc = "sleep"
    /\ \E n \in failed : Queued(n.id) = 1

\* C5: when stop() returns on a running persistor, every record that was
\* buffered in a queue when stop() was called is in the Record Store and
\* every queue is empty.
StopReturns == lastOp'.op = "stop" /\ lastOp'.res = "returned"
BufferedAtCall == IF stopCall.pc = "idle" THEN Buffered(queues) ELSE stopCall.buffered
C5_StopDrains ==
    [][StopReturns =>
          /\ \A k \in Kinds : queues'[k] = <<>>
          /\ \A r \in BufferedAtCall : CopiesIn(r, store') = 1]_vars

\* C6 as claimed: the state is not stopped while stop() has its final flush
\* still to do.
C6_RunningUntilFlushed == stopCall.pc \in {"await", "write"} => _running

\* C6 as amended: stop() on a running persistor clears the running flag in
\* its first step and never sets it again, so the state already reads
\* stopped while the timer is awaited and while the final flush is pending;
\* the final flush begins only when the timer task stop() waited for has
\* ended; it is one pass, each kind visited at most once; and stop() returns
\* with no durable write of its own in progress.
C6_Step ==
    /\ (stopCall.pc = "idle" /\ lastOp'.op = "stop" /\ lastOp'.res # "noop")
           => _running /\ ~_running'
    /\ (lastOp'.op = "stop" /\ stopCall.pc = "await" /\ stopCall' # stopCall)
           => /\ timers[stopCall.awaiting].pc = "done"
              /\ timers'[stopCall.awaiting].pc = "free"
              /\ _task' = None
    /\ (lastOp'.op = "stop" /\ stopCall.pc = "idle" /\ stopCall'.pc = "write")
           => _task = None \/ timers[_task].pc = "done"
    /\ (stopCall.pc = "write" /\ stopCall'.pc = "write" /\ stopCall' # stopCall)
           => stopCall'.kind > stopCall.kind
    /\ (lastOp'.op = "stop" /\ stopCall.pc # "idle") => UNCHANGED _running
    /\ StopReturns => stopCall'.pc = "idle" /\ StopBatches' = EmptyBag
C6_FlagClearedFirst == [][C6_Step]_vars

\* stop() is in the durable write of its final flush, the state stopped.
C6_Witness ==
    /\ stopCall.pc = "write" /\ ~_running /\ lastOp.op = "stop"
    /\ \A i \in TimerIds : timers[i].pc = "free"

\* C7: start() on a running persistor changes nothing: no schema creation,
\* no timer task, the state and the queues as they were; a first start()
\* runs the schema creation once, and when it returns the persistor is
\* running with one new timer task, which self._task refers to.
StartCalled == lastOp'.op = "start" /\ lastOp'.res \in {"noop", "schema"}
C7_Step ==
    /\ (StartCalled /\ _running) => UNCHANGED storageVars
    /\ (StartCalled /\ ~_running)
           => /\ startPc = "idle" /\ startPc' = "schema"
              /\ UNCHANGED <<queues, store, _running, _task, timers, stopCall,
                             scheduled, flushers>>
    /\ (lastOp'.op = "start" /\ lastOp'.res = "started")
           => /\ startPc = "schema" /\ startPc' = "idle"
              /\ ~_running /\ _running'
              /\ \E i \in TimerIds :
                    /\ timers[i].pc = "free" /\ timers'[i].pc = "new"
                    /\ _task' = i
                    /\ \A j \in TimerIds \ {i} : timers'[j] = timers[j]
              /\ UNCHANGED <<queues, store, scheduled, flushers>>
C7_StartIdempotent == [][C7_Step]_vars

\* start() was called on a running persistor with a record buffered.
C7_Witness ==
    /\ lastOp = Op("start", "noop", "") /\ _running
    /\ AllQueued # <<>> /\ startPc = "idle"

\* C8: a flush that finds every queue it covers empty (a _save_all pass of
\* the timer or of stop(), a _save_model_type task of one kind) starts no
\* durable write and changes no queue, no batch and no stored record.
FlushFrame == UNCHANGED <<queues, store>> /\ AllBatches' = AllBatches
C8_Step ==
    /\ (lastOp'.op = "_save_all" /\ lastOp'.write = "" /\ AllQueued = <<>>)
           => FlushFrame
    /\ (lastOp'.op = "stop" /\ lastOp'.res \in {"write", "returned"}
        /\ stopCall.pc \in {"idle", "await"} /\ AllQueued = <<>>)
           => FlushFrame
    /\ \A k \in Kinds :
           (scheduled'[k] < scheduled[k] /\ queues[k] = <<>>)
               => FlushFrame /\ lastOp'.res = "empty"
C8_EmptyFlushIsNoop == [][C8_Step]_vars

\* The timer's flush has just found every queue empty, after records were
\* stored.
C8_Witness ==
    /\ lastOp = Op("_save_all", "empty", "") /\ AllQueued = <<>>
    /\ store # EmptyBag /\ _running

\* C9: a queue_item that leaves a queue at max_queue_size or more creates one
\* flush task for that kind and touches no timer task; that task takes and
\* writes records of its kind only, leaves the other queues and the timer
\* alone, and after its successful write the records written are in no queue.
C9_Step ==
    /\ EnqueueStep =>
           /\ \A k \in Kinds :
                  scheduled'[k] = IF queues'[k] # queues[k]
                                     /\ Len(queues'[k]) >= max_queue_size
                                  THEN scheduled[k] + 1 ELSE scheduled[k]
           /\ UNCHANGED <<timers, _task, _running>>
    /\ \A k \in Kinds :
           scheduled'[k] < scheduled[k] =>
               /\ \A k2 \in Kinds \ {k} : queues'[k2] = queues[k2]
               /\ UNCHANGED <<timers, _task, _running, store>>
               /\ \A b \in BagToSet(AllBatches') :
                      Swapped(b) => /\ b.kind = k
                                    /\ \A r \in Range(b.items) : r.kind = k
    /\ \A f \in BagToSet(flushers) :
           CopiesIn(f, flushers') < CopiesIn(f, flushers) =>
               /\ \A k2 \in Kinds \ {f.kind} : queues'[k2] = queues[k2]
               /\ UNCHANGED <<timers, _task, _running>>
               /\ \A r \in Range(f.items) : r.kind = f.kind
               /\ lastOp'.write # "failed" =>
                      \A r \in Range(f.items) :
                          /\ CountIn(queues'[f.kind], r) = 0
                          /\ CopiesIn(r, store') = 1
C9_SizeTriggeredFlush == [][C9_Step]_vars

\* A size-triggered flush has stored its batch while the timer task sleeps
\* and a record of another kind waits in its queue.
C9_Witness ==
    /\ lastOp.op = "_save_model_type" /\ lastOp.write = "saved"
    /\ \E i \in TimerIds : timers[i].pc = "sleep"
    /\ AllQueued # <<>> /\ store # EmptyBag

\* ------------------------------------------------------------------- C10
SameRequest(a, b) ==
    a.netuid = b.netuid /\ a.hotkey = b.hotkey /\ a.trade = b.trade
Overlapping(i, j) == i < j /\ i \in log[j].overlapped
LogKey(e) == CacheKey(e.netuid, e.hotkey, e.trade)

C10_Step ==
    /\ nextReq' # nextReq =>
          LET e == log'[nextReq]
          IN IF RedisGet(cache, LogKey(e)) # NoEntry /\ lastOp'.res # "miss_cache_error"
             THEN /\ ~e.fetched
                  /\ calls' = calls
                  /\ answers'[nextReq] = [Loads(RedisGet(cache, LogKey(e))) EXCEPT !.cached = TRUE]
                  /\ UNCHANGED <<cache, pipelines, queues>>
             ELSE /\ e.fetched
                  /\ \E c \in calls' \ calls : c.request_id = nextReq
                  /\ UNCHANGED <<cache, pipelines, queues>>
    /\ \A c \in calls \ calls' :
          LET launched == lastOp'.res = "returned" /\ c.trade
          IN /\ BagCardinality(pipelines') - BagCardinality(pipelines)
                    = IF launched THEN 1 ELSE 0
             /\ log'[c.request_id].launched = launched
             /\ \A r \in DOMAIN log \ {c.request_id} : log'[r] = log[r]

HandleBegins == nextReq' # nextReq
Fresh(i) == answers[i] # NoEntry /\ ~answers[i].cached

\* The answer of call w as the caller receives it, served again from the
\* cache: every field as encoded in the response, and cached = true.
ServedAgain(w) ==
    [dividends |-> [keys |-> "str", data |-> answers[w].dividends.data],
     cached |-> TRUE,
     collected_at |-> [iso |-> answers[w].collected_at.datetime],
     trade |-> answers[w].trade,
     request_id |-> w]

\* C11, as stated: a call that begins after an identical call has returned
\* its fresh answer, and before the ttl has run out, gets that answer again
\* with cached = true.
C11_SecondIsCachedCopy ==
    [][HandleBegins =>
          \A i \in DOMAIN log :
              (SameRequest(log[i], log'[nextReq]) /\ Fresh(i) /\ ~log[i].ttl_over)
                  => answers'[nextReq] = ServedAgain(i)]_vars

C11_Step ==
    HandleBegins =>
        LET e == log'[nextReq]
            entry == cache[LogKey(e)]
        IN IF entry # NoEntry /\ ~entry.expired /\ lastOp'.res # "miss_cache_error"
           THEN LET w == entry.value.request_id
                IN /\ w < nextReq /\ Fresh(w) /\ ~log[w].ttl_over
                   /\ LogKey(log[w]) = LogKey(e)
                   /\ answers'[nextReq] = ServedAgain(w)
           ELSE /\ answers'[nextReq] = NoEntry
                /\ e.fetched

\* C11, as the code has it: a call that begins while the cache holds an
\* unexpired entry under its key, and whose cache read works, gets the fresh
\* answer of the call that wrote the entry, with cached = true and every
\* other field (dividends, collected_at, trade, request_id) as that call
\* returned it; in every other case (the earlier call's cache write failed,
\* the read fails, the entry has expired) the call is a miss and fetches.
\* The entry is the one written last under the key, by a call whose fresh
\* answer it holds.
C11_CachedCopyOfWriter ==
    /\ [][C11_Step]_vars
    /\ [](\A key \in CacheKeys :
             cache[key] # NoEntry =>
                 LET w == cache[key].value.request_id
                 IN /\ w \in DOMAIN log /\ Fresh(w) /\ LogKey(log[w]) = key
                    /\ MarkCached(cache[key].value) = ServedAgain(w))

\* a second identical call was answered from the cache with the first's answer
C11_Witness ==
    /\ lastOp.op = "get_tao_dividends" /\ lastOp.res = "hit"
    /\ \E i \in DOMAIN log :
           /\ i < Len(log) /\ SameRequest(log[i], log[Len(log)]) /\ Fresh(i)
           /\ answers[Len(log)] = ServedAgain(i)

\* ------------------------------------------------------------------- C12
\* C12: a call that begins when the entry under its key has outlived its
\* ttl is a miss, also while the entry is still in the store's memory: it
\* returns no cached answer and fetches; a cached answer is only ever
\* returned from an entry whose ttl has not run out.
C12_Step ==
    HandleBegins =>
        LET e == log'[nextReq]
            entry == cache[LogKey(e)]
        IN /\ (entry # NoEntry /\ entry.expired)
                 => /\ lastOp'.res \in {"miss", "miss_cache_error"}
                    /\ answers'[nextReq] = NoEntry
                    /\ e.fetched
           /\ (answers'[nextReq] # NoEntry /\ answers'[nextReq].cached)
                 => /\ entry # NoEntry /\ ~entry.expired
                    /\ ~log[entry.value.request_id].ttl_over
C12_ExpiredIsMiss == [][C12_Step]_vars

\* a call has missed while the expired entry of its key was still stored
C12_Witness ==
    /\ lastOp.op = "get_tao_dividends" /\ lastOp.res = "miss"
    /\ LET key == LogKey(log[Len(log)])
       IN cache[key] # NoEntry /\ cache[key].expired

\* ------------------------------------------------------------------- C13
\* C13: a call that finds an unexpired entry returns it with cached = true
\* in the same step, without a primary fetch, without queueing a record,
\* without a pipeline run and without a cache write: the persistor's
\* queues, its scheduled flushes and the cache are as before the call.
C13_Step ==
    (HandleBegins /\ lastOp'.res = "hit")
        => /\ answers'[nextReq] # NoEntry
           /\ answers'[nextReq].cached = TRUE
           /\ ~log'[nextReq].fetched /\ ~log'[nextReq].launched
           /\ UNCHANGED <<calls, pipelines, cache, storageVars>>
           /\ \A r \in DOMAIN log : log'[r] = log[r] /\ answers'[r] = answers[r]
C13_HitTouchesNothing ==
    /\ [][C13_Step]_vars
    /\ [][(HandleBegins /\ lastOp'.res # "miss_cache_error"
              /\ RedisGet(cache, LogKey(log'[nextReq])) # NoEntry)
            => lastOp'.res = "hit"]_vars

\* a hit while another call is in flight and a record is queued
C13_Witness ==
    /\ lastOp.op = "get_tao_dividends" /\ lastOp.res = "hit"
    /\ answers[Len(log)].cached
    /\ Len(queues["dividends"]) > 0

\* ------------------------------------------------------------------- C14
HandleCompletes == \E c \in calls : c \notin calls'

\* C14: a failing cache read makes the call a miss (the primary fetch is
\* performed), and a failing cache write leaves the fresh answer, with
\* cached = false, to be returned; the call only ever raises what the
\* primary fetch or the queueing of the primary record raised.
C14_Step ==
    /\ HandleBegins =>
          /\ lastOp'.res # "raised"
          /\ lastOp'.res = "miss_cache_error"
                => /\ log'[nextReq].fetched
                   /\ \E c \in calls' \ calls : c.request_id = nextReq
    /\ HandleCompletes =>
          /\ lastOp'.res = "raised" => lastOp'.write \in {"get_dividends", "add_dividends"}
          /\ lastOp'.write = "cache_error"
                => \E c \in calls \ calls' :
                       /\ lastOp'.res = "returned"
                       /\ answers'[c.request_id] # NoEntry
                       /\ answers'[c.request_id].cached = FALSE
                       /\ answers'[c.request_id].request_id = c.request_id
                       /\ cache' = cache
C14_CacheFailureIsMiss == [][C14_Step]_vars

\* a call has returned its fresh answer although its cache write failed, the
\* cache being empty
C14_Witness ==
    /\ lastOp = Op("get_tao_dividends", "returned", "cache_error")
    /\ \E r \in DOMAIN log :
           /\ Fresh(r) /\ log[r].fetched
           /\ \A key \in CacheKeys : cache[key] = NoEntry

\* ------------------------------------------------------------------- C15
Runs == BagToSet(pipelines)
RunOf(r) == {p \in Runs : p.request_id = r}

\* C15: a call with trade set returns its answer in the step that creates
\* the pipeline task, before the task has had a turn: no stage has been
\* called when the answer is returned, whatever the stages do later, and
\* every run that exists belongs to a call that has returned already.
C15_Step ==
    (HandleCompletes /\ lastOp'.res = "returned")
        => \A c \in calls \ calls' :
               /\ answers'[c.request_id] # NoEntry
               /\ c.trade => \E p \in BagToSet(pipelines') :
                                 /\ p.request_id = c.request_id
                                 /\ p.pc = "created" /\ p.called = {}
C15_AnswerBeforePipeline ==
    /\ [][C15_Step]_vars
    /\ [](\A p \in Runs : Fresh(p.request_id) /\ log[p.request_id].trade)

\* the answer of a call with trade set is out while its run waits in the
\* tweets request
C15_Witness ==
    \E p \in Runs : p.pc = "tweets" /\ Fresh(p.request_id)
                      /\ answers[p.request_id].trade.stake_tx_triggered

\* ------------------------------------------------------------------- C16
\* C16, as stated: a call ends with an error exactly when its primary fetch
\* failed.
C16_ErrorIffFetchFails ==
    [][HandleCompletes =>
          (lastOp'.res = "raised" <=> lastOp'.write = "get_dividends")]_vars

\* ------------------------------------------------------------------- C17
\* C17: the fresh answer of a call carries stake_tx_triggered equal to the
\* call's trade flag, and no later step of the pipeline run changes an
\* answer that has been returned.
C17_TriggeredIsTradeFlag ==
    /\ [](\A r \in DOMAIN answers :
             Fresh(r) => answers[r].trade.stake_tx_triggered = log[r].trade)
    /\ [][\A r \in DOMAIN answers :
             answers[r] # NoEntry => answers'[r] = answers[r]]_vars

\* a run has failed in its first stage and the answer still says triggered
C17_Witness ==
    \E p \in Runs : /\ p.pc = "done" /\ p.a = "failed"
                      /\ answers[p.request_id].trade.stake_tx_triggered
                      /\ ~answers[p.request_id].cached

\* ------------------------------------------------------------------- C18
RecordsOf(r, k) == {i \in 1..Len(queues[k]) : queues[k][i].request_id = r}

\* C18: a call without trade launches no run, and the only record queued
\* under its request_id is its one dividends record.
C18_NoTradeNoPipeline ==
    \A r \in DOMAIN log :
        ~log[r].trade
            => /\ RunOf(r) = {}
               /\ \A k \in Kinds \ {"dividends"} : RecordsOf(r, k) = {}
               /\ Cardinality(RecordsOf(r, "dividends")) = IF Fresh(r) THEN 1 ELSE 0

\* a call without trade has returned, its dividends record is queued, and the
\* run of another call has queued a tweet
C18_Witness ==
    \E r \in DOMAIN log :
        /\ ~log[r].trade /\ Fresh(r)
        /\ RecordsOf(r, "dividends") # {}
        /\ Len(queues["tweets"]) > 0

\* ------------------------------------------------------------------- C19
\* C19: in every run, sentiment_tweets is called and a sentiment record is
\* queued only after the tweets stage succeeded, and trade is called and a
\* trade record is queued only after the sentiment stage succeeded; a run
\* whose tweets stage failed has called nothing else and left no sentiment
\* and no trade record.
C19_StagesShortCircuit ==
    \A p \in Runs :
        /\ ("sentiment_tweets" \in p.called \/ RecordsOf(p.request_id, "sentiment_analyses") # {})
              => p.a = "ok"
        /\ ("trade" \in p.called \/ RecordsOf(p.request_id, "trades") # {})
              => p.a = "ok" /\ p.b = "ok"
        /\ p.a = "failed" => p.called = {"get_bittensor_tweets"} /\ p.pc = "done"
        /\ p.b \in {"failed", "raised"} => "trade" \notin p.called /\ p.c = ""

\* one run has ended after a failed tweets stage, another after a failed
\* sentiment stage
C19_Witness ==
    /\ \E p \in Runs : p.pc = "done" /\ p.a = "failed"
    /\ \E p \in Runs : p.pc = "done" /\ p.a = "ok" /\ p.b = "failed"

\* ------------------------------------------------------------------- C20
StageRecorded(p, stage, k) ==
    stage \in {"ok", "failed", "raised"}
        => \E i \in RecordsOf(p.request_id, k) :
               queues[k][i].is_success = (IF stage = "ok" THEN "True" ELSE "False")

\* C20, as stated: every stage that has run has queued a record under the
\* run's request_id that carries the stage's is_success.
C20_EveryStageRecorded ==
    \A p \in Runs : /\ StageRecorded(p, p.a, "tweets")
                      /\ StageRecorded(p, p.b, "sentiment_analyses")
                      /\ StageRecorded(p, p.c, "trades")

\* ------------------------------------------------------------------- C21
\* C21, as stated: no run ends by an exception, and a run whose stage failed
\* by raising has queued a record of that stage marked unsuccessful.
C21_NoUnrecordedError ==
    \A p \in Runs :
        /\ p.pc # "crashed"
        /\ p.a = "failed" => StageRecorded(p, "failed", "tweets")
        /\ p.b = "raised" => StageRecorded(p, "raised", "sentiment_analyses")
        /\ p.c = "failed" => StageRecorded(p, "failed", "trades")

\* ------------------------------------------------------------------- C22
\* C22: in a run whose tweets stage succeeded with no tweet, the LLM request
\* is never made, the one sentiment record is marked unsuccessful, trade is
\* never called and no trade record is queued.
C22_NoTweetsNoScoring ==
    \A p \in Runs :
        (p.a = "ok" /\ p.tweets = <<>>)
            => /\ "invoke_chute" \notin p.called /\ "trade" \notin p.called
               /\ p.pc = "done" /\ p.b = "failed" /\ p.c = ""
               /\ Cardinality(RecordsOf(p.request_id, "sentiment_analyses")) = 1
               /\ \A i \in RecordsOf(p.request_id, "sentiment_analyses") :
                      queues["sentiment_analyses"][i].is_success = "False"
               /\ RecordsOf(p.request_id, "trades") = {}

\* a run has ended after a successful tweets stage without tweets
C22_Witness ==
    \E p \in Runs : /\ p.a = "ok" /\ p.tweets = <<>> /\ p.pc = "done"
                      /\ RecordsOf(p.request_id, "sentiment_analyses") # {}

\* ------------------------------------------------------------------- C30
\* C30, as stated: the score of a successful sentiment result lies in
\* -100..100 and is the signed number the LLM reported.
C30_SignedVerdictInRange ==
    \A p \in Runs :
        p.b = "ok" => /\ p.sentiment \in (0 - 100)..100
                      /\ p.sentiment = ReportedScore(p.reported)

\* ------------------------------------------------------------------- C23
\* The records held anywhere: in a queue, in the batch of a durable write in
\* progress, in the Record Store
Held ==
    Range(AllQueued) \cup UNION {Range(b.items) : b \in BagToSet(AllBatches)}
                     \cup BagToSet(store)
HeldOf(r, k) == {x \in Held : x.request_id = r /\ x.kind = k}
StoredOf(r, k) == {x \in BagToSet(store) : x.request_id = r /\ x.kind = k}

\* C23: in every state in which a run has called sentiment_tweets, the
\* tweets of its Stage A are held as records of its request_id; in every
\* state in which it has called trade, its sentiment record and the tweets
\* queued with it are held too; whatever the other runs and the flushes do.
C23_StagesAfterEnqueue ==
    \A p \in Runs :
        /\ "sentiment_tweets" \in p.called
              => Cardinality(HeldOf(p.request_id, "tweets")) >= Len(p.tweets)
        /\ "trade" \in p.called
              => /\ Cardinality(HeldOf(p.request_id, "sentiment_analyses")) = 1
                 /\ Cardinality(HeldOf(p.request_id, "tweets")) >= 2 * Len(p.tweets)

\* a run has called trade while another run exists and some of its tweets
\* have been flushed to the Record Store
C23_Witness ==
    \E p, q \in Runs : /\ p.request_id # q.request_id
                         /\ "trade" \in p.called /\ p.tweets # <<>>
                         /\ StoredOf(p.request_id, "tweets") # {}

\* ------------------------------------------------------------------- C24
Acting(p) == CopiesIn(p, pipelines') < CopiesIn(p, pipelines)
C24_Step ==
    \A x \in Held' \ Held :
        \/ /\ x.kind = "dividends"
           /\ \E c \in calls \ calls' : x.request_id = c.request_id
        \/ /\ x.kind # "dividends"
           /\ \E p \in Runs : Acting(p) /\ x.request_id = p.request_id
C24_Inv ==
    /\ \A x \in Held :
           /\ x.request_id \in 1..(nextReq - 1)
           /\ x.kind = "dividends" => log[x.request_id].fetched
           /\ x.kind # "dividends" => RunOf(x.request_id) # {}
    /\ \A p, q \in Runs : p.request_id = q.request_id => p = q
    /\ \A p \in Runs : CopiesIn(p, pipelines) = 1 /\ log[p.request_id].launched

\* C24: every record that a step adds carries the request_id of the call or
\* of the run that took the step, every record held belongs to a call that
\* fetched or to the one run of its request_id, and no two runs share a
\* request_id.
C24_OwnRequestId == []C24_Inv /\ [][C24_Step]_vars

\* two runs have records held under their two request ids, some of them
\* flushed already
C24_Witness ==
    \E p, q \in Runs : /\ p.request_id # q.request_id
                         /\ HeldOf(p.request_id, "tweets") # {}
                         /\ HeldOf(q.request_id, "tweets") # {}
                         /\ store # EmptyBag

\* ------------------------------------------------------------------- C25
\* C25, as stated: when the three stages of a run have succeeded and every
\* queue has been flushed, the Record Store holds under its request_id one
\* dividends record, as many tweets records as Stage A returned tweets, one
\* sentiment record and one trade record.
C25_OneRecordPerItem ==
    \A p \in Runs :
        (/\ p.pc = "done" /\ p.a = "ok" /\ p.b = "ok" /\ p.c = "ok"
         /\ queues = EmptyQueues /\ AllBatches = EmptyBag)
            => /\ Cardinality(StoredOf(p.request_id, "dividends")) = 1
               /\ Cardinality(StoredOf(p.request_id, "tweets")) = Len(p.tweets)
               /\ Cardinality(StoredOf(p.request_id, "sentiment_analyses")) = 1
               /\ Cardinality(StoredOf(p.request_id, "trades")) = 1

\* ------------------------------------------------------------------- C26
Returned == {i \in DOMAIN tradeCalls : tradeCalls[i].pc = "returned"}
Magnitude(v) == IF v < 0 THEN 0 - v ELSE v
OneOfThree(t) ==
    /\ t.sentiment > 0 => t.chain = <<"add_stake">>
    /\ t.sentiment < 0 => t.chain = <<"unstake">>
    /\ t.sentiment = 0 => /\ t.chain = <<>>
                          /\ t.pc = "returned" /\ t.is_success /\ t.action = "None"
    /\ Len(t.chain) <= 1
    /\ t.amount = Magnitude(t.sentiment)

\* C26, as stated: for every verdict v a trade call stakes and does not
\* unstake when v > 0, unstakes and does not stake when v < 0, calls
\* neither and succeeds without action when v = 0, makes at most one chain
\* call, and its amount is 0.01 * |v|.
C26_AlwaysOneOfThree == \A i \in DOMAIN tradeCalls : OneOfThree(tradeCalls[i])

\* C26, amended: that holds for the calls that pass the two checks; a call
\* that fails one makes no chain call and has no action and no amount.
C26_OneOfThreeWhenChecked ==
    \A i \in DOMAIN tradeCalls :
        LET t == tradeCalls[i] IN
        /\ t.precheck = "ok" => OneOfThree(t)
        /\ t.precheck # "ok" => /\ t.chain = <<>> /\ t.action = "None"
                                /\ t.amount = NoAmount /\ ~t.is_success

\* three calls that passed the checks have returned: one staked, one
\* unstaked, one did nothing
C26_Witness ==
    \E i, j, k \in Returned :
        /\ tradeCalls[i].sentiment > 0 /\ tradeCalls[i].action = "stake"
        /\ tradeCalls[j].sentiment < 0 /\ tradeCalls[j].action = "unstake"
        /\ tradeCalls[k].sentiment = 0 /\ tradeCalls[k].precheck = "ok"

\* ------------------------------------------------------------------- C27
\* C27: no trade call lets an exception out; a call made without wallet,
\* with another hotkey than the wallet's, or whose chain call raised returns
\* is_success false with the error message; without wallet or with another
\* hotkey it makes no chain call and its result has no action.
C27_TradeNeverRaises ==
    \A i \in Returned :
        LET t == tradeCalls[i] IN
        /\ ~t.propagated
        /\ (t.precheck # "ok" \/ t.outcome = "raised")
              => ~t.is_success /\ t.message = "Trade execution error"
        /\ t.precheck # "ok" => t.chain = <<>> /\ t.action = "None"

\* a call with another hotkey and a call whose chain call raised have
\* returned
C27_Witness ==
    \E i, j \in Returned : /\ tradeCalls[i].precheck = "hotkey_mismatch"
                             /\ tradeCalls[j].outcome = "raised"

\* ------------------------------------------------------------------- C28
IsPrefix(s, t) == Len(s) <= Len(t) /\ \A i \in DOMAIN s : t[i] = s[i]
C28_Step ==
    lastOp'.op = "add_sentiment" =>
        LET scores == queues["sentiment_analyses"]
            scores2 == queues'["sentiment_analyses"]
            n == Len(queues["tweets"])
        IN /\ IsPrefix(scores, scores2) /\ Len(scores2) = Len(scores) + 1
           /\ scores2[Len(scores2)].request_id = added'.request_id
           /\ scores2[Len(scores2)].kind = "sentiment_analyses"
           /\ IsPrefix(queues["tweets"], queues'["tweets"])
           /\ Len(queues'["tweets"]) = n + Len(added'.tweets)
           /\ \A i \in DOMAIN added'.tweets :
                  /\ queues'["tweets"][n + i].text = added'.tweets[i]
                  /\ queues'["tweets"][n + i].request_id = added'.request_id
                  /\ queues'["tweets"][n + i].kind = "tweets"
           /\ queues'["trades"] = queues["trades"]
           /\ queues'["dividends"] = queues["dividends"]

\* C28: a call of add_sentiment appends one record to the sentiment queue
\* and one record per tweet supplied, in the order supplied, to the tweets
\* queue, each with the request_id given, and leaves the trades and the
\* dividends queues as they were.
C28_AddSentimentFrame == [][C28_Step]_vars

\* add_sentiment has been called with two different tweets while the
\* trades and the dividends queues held records
C28_Witness ==
    /\ lastOp.op = "add_sentiment"
    /\ Len(added.tweets) = 2 /\ added.tweets[1] # added.tweets[2]
    /\ queues["trades"] # <<>> /\ queues["dividends"] # <<>>

\* ------------------------------------------------------------------- C29
LookupsReturned == {i \in DOMAIN lookups : lookups[i].pc = Len(LookupOrder) + 1}
Answer(l) == UNION {l.rows[k] : k \in Kinds}

\* C29: a lookup that has returned gives every record that was persisted
\* under its request_id when it began, under each kind only records of that
\* kind persisted under that request_id, and nothing under a kind with no
\* persisted record of that request_id.
C29_LookupIsComplete ==
    \A i \in LookupsReturned :
        LET l == lookups[i] IN
        /\ l.begun \subseteq Answer(l)
        /\ \A k \in Kinds : l.rows[k] \subseteq Rows(l.request_id, k)
        /\ \A k \in Kinds : Rows(l.request_id, k) = {} => l.rows[k] = {}

\* a lookup has returned records of the four kinds, two tweets among them,
\* while records of another request were persisted
C29_Witness ==
    \E i \in LookupsReturned :
        LET l == lookups[i] IN
        /\ \A k \in Kinds : l.rows[k] # {}
        /\ Cardinality(l.rows["tweets"]) >= 2
        /\ \E x \in BagToSet(store) : x.request_id # l.request_id

\* ------------------------------------------------------------------- C32
TimersAlive == {i \in TimerIds : timers[i].pc \in {"new", "sleep", "write"}}

\* C32, as stated: at most one timer task exists at any time, also when
\* two start() calls overlap and when start() is called while stop() awaits
\* the timer task.
C32_AtMostOneTimer == Cardinality(TimersAlive) <= 1

\* ------------------------------------------------------------------- C36
\* The kind positions after j whose queue holds records
WaitingAfter(j) == {m \in DOMAIN KindOrder : m > j /\ queues[KindOrder[m]] # <<>>}
\* a pass at position j whose write has just failed goes on as pass2
GoesOn(j, pass2) ==
    IF WaitingAfter(j) = {}
    THEN pass2.pc # "write"
    ELSE LET m == CHOOSE x \in WaitingAfter(j) : \A y \in WaitingAfter(j) : x <= y
         IN /\ pass2.pc = "write" /\ pass2.kind = m
            /\ pass2.items = queues[KindOrder[m]]
            /\ queues'[KindOrder[m]] = <<>>
C36_Step ==
    lastOp'.write = "failed" =>
        /\ \A i \in TimerIds :
               (timers[i].pc = "write" /\ timers'[i] # timers[i])
                   => /\ GoesOn(timers[i].kind, timers'[i])
                      /\ timers'[i].pc \in {"write", "sleep", "done", "free"}
        /\ (stopCall.pc = "write" /\ stopCall' # stopCall)
               => /\ GoesOn(stopCall.kind, stopCall')
                  /\ stopCall'.pc \in {"write", "idle"}

\* C36: when the durable write of one kind fails in a _save_all pass, the
\* pass goes on in the same step with the next kind whose queue holds
\* records, swapping it out and starting its write, and so with every kind
\* that follows; the failure ends neither the pass nor its caller.
C36_FailureDoesNotStopPass == [][C36_Step]_vars

\* a write of a timer's pass has failed, its records are back in their
\* queue, and the pass is writing the records of a later kind
C36_Witness ==
    /\ lastOp.op = "_save_all" /\ lastOp.write = "failed"
    /\ \E i \in TimerIds :
           /\ timers[i].pc = "write"
           /\ \E m \in DOMAIN KindOrder :
                  m < timers[i].kind /\ Range(queues[KindOrder[m]]) \cap failed # {}

\* ------------------------------------------------------------------- C37
\* the timer that stop() awaits does not go to sleep again
C37_Step ==
    stopCall.pc = "await" =>
        LET i == stopCall.awaiting IN
        timers'[i].pc = "sleep" => timers[i].pc = "sleep"

\* C37: after stop() has been called on a running persistor the timer task
\* it awaits never goes back to sleep, so it ends after the pass in progress
\* or the one pass its sleep is followed by, and, every durable write
\* returning or raising, stop() returns.
C37_StopTerminates ==
    /\ [][C37_Step]_vars
    /\ (stopCall.pc # "idle") ~> (stopCall.pc = "idle")

\* stop() has returned after a final flush that stored records
C37_Witness ==
    /\ lastOp.op = "stop" /\ lastOp.res = "returned"
    /\ lastOp.write \in {"saved", "resaved"}
    /\ ~_running /\ _task = None /\ stopCall.pc = "idle"

\* ------------------------------------------------------------------- C38
StopCalled == lastOp'.op = "stop" /\ stopCall.pc = "idle"
C38_Step ==
    (StopCalled /\ ~_running) =>
        /\ lastOp'.res = "noop" /\ lastOp'.write = ""
        /\ UNCHANGED <<queues, store, _running, _task, timers, stopCall,
                       scheduled, flushers>>

\* C38: a stop() call on a persistor that is not running returns at once:
\* no queue is swapped out, no durable write is started, and the queues,
\* the Record Store and the tasks are as before, so what was enqueued
\* while it was stopped stays queued.
C38_StopWhenStoppedIsNoop == [][C38_Step]_vars

\* stop() has returned at once on a persistor that is not running, with
\* records stored earlier and records in its queues
C38_Witness ==
    /\ lastOp.op = "stop" /\ lastOp.res = "noop"
    /\ ~_running /\ store # EmptyBag /\ Buffered(queues) # {}

\* ------------------------------------------------------------------- C39
C39_Step ==
    (lastOp'.op = "queue_item" /\ lastOp'.res = "ValueError") =>
        /\ queues' = queues /\ DOMAIN queues' = Kinds
        /\ UNCHANGED <<scheduled, nextId, store, flushers, timers>>

\* C39: queue_item with a kind that is none of the four raises ValueError:
\* every queue is as before, there is no queue of the new kind, no record
\* was taken and no flush was scheduled; every call with one of the four
\* kinds queues its record.
C39_UnknownKindRejected ==
    /\ [][C39_Step]_vars
    /\ [][(lastOp'.op = "queue_item" /\ lastOp'.res # "ValueError")
             => nextId' = nextId + 1]_vars

\* queue_item has raised ValueError while the queues held records
C39_Witness ==
    /\ lastOp.op = "queue_item" /\ lastOp.res = "ValueError"
    /\ Buffered(queues) # {}

\* ------------------------------------------------------------------- C31
\* C31, as stated: when connect(warm_up=True) has returned the client is
\* connected and warmed up; when close() has returned it is disconnected
\* and not warmed up; it is never warmed up while disconnected.
C31_ConnectCloseContract ==
    /\ (client.call.op = "connect" /\ client.call.warm_up
          /\ client.call.pc = "returned")
           => client.substrate # "None" /\ client.is_warmed_up
    /\ (client.call.op = "close" /\ client.call.pc = "returned")
           => client.substrate = "None" /\ ~client.is_warmed_up
    /\ client.is_warmed_up => client.substrate # "None"

\* ------------------------------------------------------------------- C34
\* a call that has ended without an answer: its fetch, or the queueing of
\* its primary record, raised
EndedWithoutAnswer(r) ==
    /\ log[r].fetched /\ answers[r] = NoEntry
    /\ \A c \in calls : c.request_id # r

\* C34: a call whose primary fetch fails queues no record, launches no
\* pipeline run and writes no cache entry (queues, scheduled flushes,
\* store, pipeline runs, cache and answers are as before the failure), and
\* a later identical call, no identical call having returned an answer, is
\* a cache miss that performs the primary fetch itself.
C34_Step ==
    \A c \in calls, d \in DividendValues, up \in BOOLEAN :
        HandleFetchDone(c, d, FALSE, up)
            => /\ UNCHANGED <<queues, nextId, scheduled, flushers, store,
                              pipelines, cache, answers>>
               /\ lastOp'.res = "raised"
C34_LaterIsMiss ==
    \A j \in DOMAIN log :
        (/\ \E r \in 1..(j - 1) : SameRequest(log[r], log[j]) /\ EndedWithoutAnswer(r)
         /\ \A r2 \in DOMAIN log : SameRequest(log[r2], log[j]) => ~Fresh(r2))
            => /\ log[j].fetched
               /\ answers[j] = NoEntry
C34_FailedFetchLeavesNothing == []C34_LaterIsMiss /\ [][C34_Step]_vars

\* the fetch of a call with a netuid has failed, and an identical call made
\* after the failure is in flight as a miss
C34_Witness ==
    /\ \E j \in DOMAIN log : \E r \in 1..(j - 1) :
           /\ SameRequest(log[r], log[j]) /\ log[r].netuid # <<>>
           /\ EndedWithoutAnswer(r)
           /\ r \notin log[j].overlapped
           /\ \E c \in calls : c.request_id = j

\* ------------------------------------------------------------------- C35
\* C35, as stated: two requests get the same cache key if and only if they
\* have the same netuid, the same hotkey and the same trade flag, and an
\* answer served from the cache was written by a call with the same three
\* arguments.
C35_KeyIsInjective ==
    /\ \A i, j \in DOMAIN log :
           (LogKey(log[i]) = LogKey(log[j])) <=> SameRequest(log[i], log[j])
    /\ \A j \in DOMAIN log :
           (answers[j] # NoEntry /\ answers[j].cached)
               => SameRequest(log[answers[j].request_id], log[j])

\* ------------------------------------------------------------------- C33
RunInProgress == \E p \in BagToSet(pipelines) : p.pc \notin {"done", "crashed"}

\* C33, as stated: when stop() has made its final flush and returned while
\* a run is still in progress, the run ends and every record queued,
\* those that the run queues after the flush included, is in the end in
\* the Record Store.
C33_QueuedAfterStopIsStored ==
    []((lastOp.op = "stop" /\ lastOp.res = "returned" /\ RunInProgress)
          => <>(~RunInProgress /\ \A n \in Enqueued : Stored(n) = 1))

====
